---------------------------- MODULE Spec2Model ----------------------------
(***************************************************************************)
(* Sandbox backends of agent-sandbox-local: the tmux session backend       *)
(* (backends/tmux/backend.py), the OrbStack/Docker container backend       *)
(* (backends/orbstack/backend.py) and the factory that hands out and       *)
(* caches their instances (backends/factory.py).                           *)
(*                                                                         *)
(* One behaviour is one process using one backend type (the variable       *)
(* `backend`); the two backends share no state, so their state spaces are  *)
(* explored side by side.  Time is counted in ticks of 100 ms on each      *)
(* call's own clock (time.time() - start_time); sleeps are exact.          *)
(* Randomly drawn uuid4 tokens (sandbox ids, exit markers) are modelled as *)
(* fresh numbers.                                                          *)
(***************************************************************************)
EXTENDS Integers, Sequences, FiniteSets, TLC

\* ------------------------------------------------------------------ bounds
MaxIds == 2
MaxCalls == 3
MaxBg == 1
MaxConcCalls == 2
MaxSandboxes == 1
MaxLifeCalls == 1
MaxFileOps == 2
MaxInstances == 2
MaxLists == 2
MaxExecTicks == 3
MaxPairCalls == 2
MaxCreates == 2

\* ------------------------------------------------------- program constants
PollTicks == 2
DefaultTimeout == 600
TimeoutCode == -1

Ids == 1 .. MaxIds
Callers == {1, 2}
SeqCallers == {1}
Timeouts == {1, 3}
ConcTimeouts == {1}
Statuses == {0, 1}
Backends == {"tmux", "orbstack"}
\* A session or container name is <<prefix, rest>>: <<"sbx", i>> is the name
\* create_sandbox gave sandbox i, "sbx_" and the i-th draw of twelve hex
\* digits.  The names of sessions or containers that something else put on
\* the host: one that begins with "sbx" and one that does not.
ForeignNames == {<<"sbx", 0>>, <<"dev", 0>>}
Limits == {0, 1, 2}
\* How long an executed command runs, in ticks; Forever: it never ends.
Forever == -1
Durations == {1, 3, Forever}

VARIABLES
    backend,            \* backend type this process was configured with
    cleanup_workspace,  \* config["cleanup_workspace"]
    echoStderr,         \* session shell writes prompt and typed line to stderr
    nextId,             \* sandbox ids handed out so far
    workspaces,         \* ids whose host workspace directory exists
    sessions,           \* tmux server: live session names
    sessTable,          \* TmuxBackend._sessions (keys)
    sideFiles,          \* capture_dir/<id>.json files on disk
    pty,                \* per session: lines typed into the pane, not yet read
    running,            \* per session: the command line the shell is executing
    capFile,            \* capture_dir/<id>_output.txt: [exists, content]
    teeLive,            \* per session: shell output is tee'd into the linked capFile
    containers,         \* container runtime: state of the container named <id>
    activeContainers,   \* OrbStackBackend._active_containers (keys)
    pc,                 \* per caller: position inside run_command
    cur,                \* per caller: locals of the run_command in progress
    ret,                \* per caller: outcome of the caller's last completed call
    nCalls,             \* run_command invocations that got past the session test
    nBg,                \* background commands typed so far
    killLog,            \* per id: results of the first two kill_sandbox calls on it
    killedOk,           \* ids on which some kill_sandbox call has returned true
    faults,             \* ids for which an underlying step was made to fail
    fs,                 \* files and directories on the host and in the containers
    lastWrite,          \* the latest change to fs, if it was a write_file(_bytes)
    nFileOps,           \* file operations called so far
    foreign,            \* names of sessions/containers made by something else
    instances,          \* BackendFactory._instances: pairs <<name, instance>>
    made,               \* backend instances constructed so far
    held,               \* the instance of type `backend` the client is using
    shelved,            \* per instance not in use: its _sessions/_active_containers
    lastMade,           \* outcome of the last create_backend / clear_cache
    lastList,           \* outcome of the last list_sandboxes
    nLists,             \* list_sandboxes calls so far
    dropped,            \* side files the TmuxBackend constructed last left out
    sideInfo,           \* per id: the fields written into capture_dir/<id>.json
    tableInfo,          \* per id: the record held under it in _sessions
    labels,             \* per id: the labels of the container named <id>
    heldCfg,            \* the config of the instance the client is using
    registry,           \* BackendFactory._backends: pairs <<name, class>>
    current,            \* factory.py's _current_backend: an instance, NoInstance for None
    given               \* per id: the metadata its create_sandbox call was given

vars == <<backend, cleanup_workspace, echoStderr, nextId, workspaces, sessions,
          sessTable, sideFiles, pty, running, capFile, teeLive, containers,
          activeContainers, pc, cur, ret, nCalls, nBg, killLog,
          killedOk, faults, fs, lastWrite, nFileOps, foreign, instances, made,
          held, shelved, lastMade, lastList, nLists, dropped, sideInfo, tableInfo,
          labels, heldCfg, registry, current, given>>

tmuxVars == <<sessions, sessTable, sideFiles, pty, running, capFile, teeLive>>
dockerVars == <<containers, activeContainers>>
callVars == <<pc, cur, nCalls>>
\* The factory's state, the foreign sessions and containers, and the list
\* bookkeeping: nothing a sandbox operation other than list_sandboxes writes.
factoryVars == <<instances, made, held, shelved, lastMade>>
listVars == <<foreign, lastList, nLists>>
logVars == <<dropped>>
\* What is recorded about a sandbox at its creation, and the config in use.
infoVars == <<sideInfo, tableInfo, labels, heldCfg>>
\* The factory's registry of classes and the module's current backend.
registryVars == <<registry, current>>
\* What a sandbox operation other than create_sandbox and connect_sandbox
\* never writes.
baseVars == <<backend, cleanup_workspace, echoStderr, factoryVars, listVars, logVars,
              registryVars>>
envVars == <<baseVars, given>>
confVars == <<envVars, infoVars>>
fileVars == <<fs, lastWrite, nFileOps>>
histVars == <<killLog, killedOk, faults, nBg>>

\* ------------------------------------------------------------ value shapes
NoCmd == [n |-> 0, k |-> 0, st |-> 0]
NoFile == [exists |-> FALSE, content |-> <<>>]
NoCall == [sid |-> 0, n |-> 0, k |-> 0, T |-> 0, st |-> 0, elapsed |-> 0,
           exit_code |-> 0, output |-> <<>>, sent |-> 0, slept |-> 0,
           seen |-> "no", dur |-> 0, polls |-> 0, ws |-> 0]
NoRet == [op |-> "none", sid |-> 0, n |-> 0, k |-> 0, res |-> "none", val |-> FALSE,
          exit_code |-> 0, stdout |-> <<>>, elapsed |-> 0, T |-> 0, st |-> 0,
          existed |-> FALSE, io |-> FALSE, sent |-> 0, seen |-> "no",
          path |-> <<>>, data |-> <<>>, wrote |-> FALSE, meta |-> "none",
          metadata |-> {}, ws |-> 0, polls |-> 0]

\* Outcome of a lifecycle call: op on sandbox id, result kind res, boolean
\* return value val, whether the session/container existed at entry, and
\* whether the call typed keys into a pane or issued a runtime exec.
\* meta: where a get_sandbox_info took its metadata from, or whether a
\* connect_sandbox had to start the container.
LifeRet(op, id, res, val, existed, io) ==
    [NoRet EXCEPT !.op = op, !.sid = id, !.res = res, !.val = val,
                  !.existed = existed, !.io = io]

NoWrite == [sid |-> 0, path |-> <<>>, text |-> FALSE, data |-> <<>>]

\* A backend instance: the n-th one constructed, of class cls, from config cfg.
Instance(n, cls, cfg) == [n |-> n, cls |-> cls, cfg |-> cfg]

NoInstance == Instance(0, "", 0)

\* Outcome of a factory call: the instance returned (its number), whether
\* the call constructed it, the instance that was cached under the name at
\* entry, and whether the cache was empty at entry.
NoMade == [op |-> "none", name |-> "", cache |-> FALSE, cfg |-> 0, res |-> "none",
           inst |-> 0, built |-> FALSE, had |-> NoInstance, empty |-> FALSE]

\* Outcome of a list_sandboxes call: the names in the result, and those of
\* them whose created_at, metadata and template were read from a side file.
\* metas: the pairs <<name, metadata>> of the result.
NoList == [op |-> "none", limit |-> 0, names |-> <<>>, upto |-> 0, fromFile |-> {},
           metas |-> {}]

Tok(kind, n) == <<kind, n>>

Marks(content, k) == {i \in 1 .. Len(content) : content[i] = Tok("mark", k)}

Min(S) == CHOOSE x \in S : \A y \in S : x <= y

Has(content, t) == \E i \in 1 .. Len(content) : content[i] = t

\* A metadata map is the set of its <<key, value>> pairs; a key is the
\* sequence of its dot-separated segments.
NoMetadata == {}
Metadatas == {NoMetadata, {<<<<"owner">>, "a">>},
              {<<<<"owner">>, "b">>, <<<<"meta", "x">>, "a">>}}

\* The record create_sandbox keeps of a session: the workspace directory
\* (named by the config whose workspace_dir it lies below) and the metadata.
SessionInfo(cfg, m) == [workspace |-> cfg, metadata |-> m]

\* No record: self._sessions.get(sandbox_id) gave None.
NoSessionInfo == SessionInfo(0, NoMetadata)

\* json.dump(info, f): the members of the JSON object, written as
\* <<member, key, value>>; the metadata object has one member per pair.
DumpSessionInfo(info) ==
    {<<"workspace", <<>>, info.workspace>>} \cup
    {<<"metadata", kv[1], kv[2]>> : kv \in info.metadata}

\* json.load(f) of a side file with these members
ParseSessionInfo(members) ==
    [workspace |-> (CHOOSE t \in members : t[1] = "workspace")[3],
     metadata |-> {<<t[2], t[3]>> : t \in {u \in members : u[1] = "metadata"}}]

\* LABEL_PREFIX, and f"{LABEL_PREFIX}.meta."
LABEL_PREFIX == <<"agent-sandbox">>
MetaPrefix == LABEL_PREFIX \o <<"meta">>

\* k.startswith(prefix)
StartsWith(k, prefix) ==
    Len(k) >= Len(prefix) /\ SubSeq(k, 1, Len(prefix)) = prefix

\* The labels create_sandbox puts on a container, as <<key, value>>, the
\* metadata pair (k, v) under the key f"{LABEL_PREFIX}.meta.{k}".
Labels(m) ==
    {<<LABEL_PREFIX \o <<"created_by">>, "agent-sandbox-cli">>,
     <<LABEL_PREFIX \o <<"template">>, "base">>} \cup
    {<<MetaPrefix \o kv[1], kv[2]>> : kv \in m}

\* A reading of the labels that leaves the prefix on the keys.
PrefixKept(L) ==
    {<<t[1], t[2]>> : t \in {u \in L : StartsWith(u[1], MetaPrefix)}}

\* get_sandbox_info and list_sandboxes: the labels whose key starts with
\* the prefix, under the key with the prefix cut off (k[len(prefix):]).
MetadataOf(L) ==
    {<<SubSeq(t[1], Len(MetaPrefix) + 1, Len(t[1])), t[2]>> :
        t \in {u \in L : StartsWith(u[1], MetaPrefix)}}

\* The classes _register_default_backends registers.
DefaultBackends == {<<"orbstack", "OrbStackBackend">>, <<"tmux", "TmuxBackend">>}

\* The state once the backend instance has been constructed, with the
\* sandboxes 1 .. n of an earlier run of this system still on the host:
\* _load_sessions has read their side files into _sessions, while
\* _active_containers starts empty.
Booted(n, cached, registered) ==
    /\ backend \in Backends
    /\ cleanup_workspace \in BOOLEAN
    /\ echoStderr \in BOOLEAN
    /\ nextId = n
    /\ workspaces = 1 .. n
    /\ sessions = IF backend = "tmux" THEN 1 .. n ELSE {}
    /\ sessTable = IF backend = "tmux" THEN 1 .. n ELSE {}
    /\ sideFiles = IF backend = "tmux" THEN 1 .. n ELSE {}
    /\ pty = [i \in Ids |-> <<>>]
    /\ running = [i \in Ids |-> NoCmd]
    /\ capFile = [i \in Ids |-> NoFile]
    /\ teeLive = [i \in Ids |-> FALSE]
    /\ containers = [i \in Ids |-> IF backend = "orbstack" /\ i <= n
                                    THEN "running" ELSE "none"]
    /\ activeContainers = {}
    /\ pc = [c \in Callers |-> "idle"]
    /\ cur = [c \in Callers |-> NoCall]
    /\ ret = [c \in Callers |-> NoRet]
    /\ nCalls = 0
    /\ nBg = 0
    /\ killLog = [i \in Ids |-> <<>>]
    /\ killedOk = {}
    /\ faults = {}
    /\ fs = {}
    /\ lastWrite = NoWrite
    /\ nFileOps = 0
    /\ foreign \in SUBSET ForeignNames
    /\ instances = cached
    /\ made = 1
    /\ held = 1
    /\ shelved = [i \in 1 .. MaxInstances |-> {}]
    /\ lastMade = NoMade
    /\ lastList = NoList
    /\ nLists = 0
    /\ dropped = {}
    /\ sideInfo = [i \in Ids |-> IF backend = "tmux" /\ i <= n
                                 THEN DumpSessionInfo(SessionInfo(1, NoMetadata)) ELSE {}]
    /\ tableInfo = [i \in Ids |-> IF backend = "tmux" /\ i <= n
                                  THEN SessionInfo(1, NoMetadata) ELSE NoSessionInfo]
    /\ labels = [i \in Ids |-> IF backend = "orbstack" /\ i <= n
                               THEN Labels(NoMetadata) ELSE {}]
    /\ heldCfg = 1
    /\ registry = registered
    /\ current = NoInstance
    /\ given = [i \in Ids |-> NoMetadata]

\* The client got its instance from create_backend: the instance is in the
\* factory's cache and the default classes are registered.
Started(n) == Booted(n, {<<backend, Instance(1, backend, 1)>>}, DefaultBackends)

Init == Started(0)


\* ---------------------------------------------------------- file system
\* A path is the sequence of its pieces: "/workspace/a" is
\* <<"/", "workspace", "/", "a">>.  File content is a sequence of bytes, text
\* a sequence of characters; "e_acute" is a character outside ASCII that
\* UTF-8 writes as the two bytes C3 A9.
PRel == <<"a">>
PWs == <<"/", "workspace", "/", "a">>
PAbs == <<"/", "tmp", "/", "a">>
Paths == {PRel, PWs, PAbs}
Texts == {<<"x", "LF">>, <<"CR", "x">>, <<"e_acute">>}
Blobs == {<<"CR", "LF">>, <<"C3">>}

\* A place in fs: below the host workspace directory of a sandbox ("ws",
\* which a container sees as /workspace), below the host's root ("host"), or
\* below the root of a container's own file system ("ctr").
Loc(root, id, path) == [root |-> root, id |-> id, path |-> path]

Entry(loc) == {e \in fs : e.loc = loc}
Exists(loc) == Entry(loc) # {}
IsFile(loc) == \E e \in Entry(loc) : e.kind = "file"
IsDir(loc) == \E e \in Entry(loc) : e.kind = "dir"
DataAt(loc) == (CHOOSE e \in Entry(loc) : TRUE).data

Under(loc, dir) ==
    /\ loc.root = dir.root /\ loc.id = dir.id
    /\ Len(dir.path) <= Len(loc.path)
    /\ SubSeq(loc.path, 1, Len(dir.path)) = dir.path
    /\ Len(loc.path) = Len(dir.path) \/ loc.path[Len(dir.path) + 1] = "/"

Put(loc, kind, data) ==
    {e \in fs : e.loc # loc} \cup {[loc |-> loc, kind |-> kind, data |-> data]}

Remove(loc) == {e \in fs : ~Under(e.loc, loc)}

\* str.encode("utf-8")
RECURSIVE EncodeUtf8(_)
EncodeUtf8(t) ==
    IF t = <<>> THEN <<>>
    ELSE (IF Head(t) = "e_acute" THEN <<"C3", "A9">> ELSE <<Head(t)>>)
         \o EncodeUtf8(Tail(t))

\* bytes.decode("utf-8"); "invalid" stands where the decoder gives up
RECURSIVE DecodeUtf8(_)
DecodeUtf8(b) ==
    IF b = <<>> THEN <<>>
    ELSE IF Head(b) = "C3"
    THEN IF Tail(b) # <<>> /\ Head(Tail(b)) = "A9"
         THEN <<"e_acute">> \o DecodeUtf8(Tail(Tail(b)))
         ELSE <<"invalid">>
    ELSE IF Head(b) = "A9" THEN <<"invalid">>
    ELSE <<Head(b)>> \o DecodeUtf8(Tail(b))

Utf8Valid(b) == ~Has(DecodeUtf8(b), "invalid")

\* Text-mode reading with newline=None: "\r\n" and "\r" both become "\n".
RECURSIVE UniversalNewlines(_)
UniversalNewlines(t) ==
    IF t = <<>> THEN <<>>
    ELSE IF Head(t) = "CR"
    THEN <<"LF">> \o UniversalNewlines(IF Tail(t) # <<>> /\ Head(Tail(t)) = "LF"
                                       THEN Tail(Tail(t)) ELSE Tail(t))
    ELSE <<Head(t)>> \o UniversalNewlines(Tail(t))

\* Path.write_text / Path.read_text on a POSIX host
WriteText(t) == EncodeUtf8(t)
ReadText(b) == UniversalNewlines(DecodeUtf8(b))

\* The workspace directory run_command, run_command_background and
\* _get_full_path work in, named by the config whose workspace_dir it lies
\* below: (self._sessions.get(id) or {}).get("workspace", workspace_dir/id).
ResolveWorkspace(id) ==
    IF id \in sessTable THEN tableInfo[id].workspace ELSE heldCfg

\* ws: the workspace directory a call of the terminal backend worked in.
FileRet(op, id, path, res, val, data, existed, wrote) ==
    [NoRet EXCEPT !.op = op, !.sid = id, !.path = path, !.res = res, !.val = val,
                  !.data = data, !.existed = existed, !.wrote = wrote,
                  !.ws = IF backend = "tmux" THEN ResolveWorkspace(id) ELSE 0]

\* What a call that has changed fs leaves in lastWrite.
Written(id, path, text, data) ==
    [sid |-> id, path |-> path, text |-> text, data |-> data]

\* ------------------------------------------------------------ tmux backend
\* The id TmuxBackend._generate_sandbox_id makes of the twelve hex digits
\* it has drawn: f"{SESSION_PREFIX}_{digits}", SESSION_PREFIX = "sbx".
TmuxSandboxId(digits) == <<"sbx", digits>>

\* The id OrbStackBackend._generate_sandbox_id makes of the twelve hex
\* digits it has drawn: f"sbx_{digits}".
DockerSandboxId(digits) == <<"sbx", digits>>

\* A generator that hands out the same id every time.
ReusedSandboxId(n) == 1

\* uuid4().hex[:12] behind the "sbx_" prefix: a draw not made before.
GenerateSandboxId(n) == n + 1

\* A marker token that is the same for every invocation.
ReusedExitMarker(n) == 1

\* uuid4().hex[:8] inside "__EXIT_..__": a new token for every invocation.
NewExitMarker(n) == n + 1

\* A timeout taken as it was given.
KeptTimeout(T) == T

\* timeout = timeout or 60: None and 0 (both written 0 here) become the
\* default, every other value stays, a negative one too
EffectiveTimeout(T) == IF T = 0 THEN DefaultTimeout ELSE T

session_exists(id) == id \in sessions

\* content.split(exit_marker)[0]
SplitBefore(content, k) == SubSeq(content, 1, Min(Marks(content, k)) - 1)

\* content.split(exit_marker)[1]
SplitAfter(content, k) ==
    LET first == Min(Marks(content, k))
        later == {i \in Marks(content, k) : i > first}
        last == IF later = {} THEN Len(content) ELSE Min(later) - 1
    IN  SubSeq(content, first + 1, last)

\* int(parts[1].strip().split()[0]), 0 when that is not a number
ParseExitCode(after) ==
    IF after # <<>> /\ after[1][1] = "st" THEN after[1][2] ELSE 0

\* A loop test that lets one more turn through.
PollingLate(elapsed, T) == elapsed < T + PollTicks

\* The while-loop test of run_command.
Polling(elapsed, T) == elapsed < T

\* One capture file for all sandboxes.
SharedOutputFile(id) == 1

\* output_file = capture_dir / "<sandbox_id>_output.txt": one per sandbox.
output_file(id) == id

\* What the shell's output stream adds to the capture file.  The pipeline
\* shell -> tee -> file is taken as prompt: text is in the file as soon as
\* the shell has written it, so a tee left over from an earlier redirect
\* has nothing left to deliver once a later command's marker is written.
Emit(id, toks) ==
    IF teeLive[id] /\ capFile[output_file(id)].exists
    THEN [capFile EXCEPT ![output_file(id)].content = @ \o toks]
    ELSE capFile

\* The marker k has just gone into the capture file of sandbox id.  A call
\* waiting for k with a look into the file still to come records when the
\* marker first got there: "intime" while less than T has elapsed on its
\* clock, "late" from T on.
Reached(id, k) ==
    [c \in Callers |->
        IF /\ teeLive[id] /\ capFile[output_file(id)].exists
           /\ cur[c].sid = id /\ cur[c].k = k /\ cur[c].seen = "no"
           /\ \/ pc[c] \in {"settle", "sleep"}
              \/ pc[c] = "poll" /\ Polling(cur[c].elapsed, cur[c].T)
        THEN [cur[c] EXCEPT !.seen = IF pc[c] = "settle" \/ cur[c].elapsed < cur[c].T
                                     THEN "intime" ELSE "late"]
        ELSE cur[c]]

\* The results of the first and of the second kill_sandbox call made on an
\* id that create_sandbox has handed out.
LogKill(id, r) ==
    IF id <= nextId /\ (killLog[id] = <<>> \/ Tail(killLog[id]) = <<>>)
    THEN [killLog EXCEPT ![id] = Append(@, r)] ELSE killLog

NoteKill(id, r) == IF id <= nextId /\ r THEN killedOk \cup {id} ELSE killedOk

\* create_sandbox(metadata=m) while fewer than max ids have been drawn;
\* sessionOk: tmux new-session goes through, which it never does when a
\* session of that name is there already.  The record goes into _sessions
\* and, through _save_session_info, into the side file.
TmuxCreateWith(c, sessionOk, max, m) ==
    /\ backend = "tmux" /\ pc[c] = "idle" /\ nextId < max
    /\ LET id == GenerateSandboxId(nextId)
           session_info == SessionInfo(heldCfg, m)
       IN
       /\ nextId' = id
       /\ workspaces' = workspaces \cup {id}
       /\ IF sessionOk /\ ~session_exists(id)
          THEN /\ sessions' = sessions \cup {id}
               /\ sessTable' = sessTable \cup {id}
               /\ sideFiles' = sideFiles \cup {id}
               /\ tableInfo' = [tableInfo EXCEPT ![id] = session_info]
               /\ given' = [given EXCEPT ![id] = m]
               /\ sideInfo' = [sideInfo EXCEPT ![id] = DumpSessionInfo(session_info)]
               /\ ret' = [ret EXCEPT ![c] =
                            [LifeRet("create", id, "ok", TRUE, FALSE, FALSE)
                               EXCEPT !.metadata = m]]
               /\ faults' = faults
          ELSE /\ UNCHANGED <<sessions, sessTable, sideFiles, tableInfo, sideInfo, given>>
               /\ ret' = [ret EXCEPT ![c] =
                            LifeRet("create", id, "creation_error", FALSE, FALSE, FALSE)]
               /\ faults' = faults \cup {id}
    /\ UNCHANGED <<fileVars, baseVars, labels, heldCfg, pty, running, capFile, teeLive,
                   dockerVars, callVars, killLog, killedOk, nBg>>

\* create_sandbox() without metadata
TmuxCreateBelow(c, sessionOk, max) == TmuxCreateWith(c, sessionOk, max, NoMetadata)

TmuxCreate(c, sessionOk) == TmuxCreateBelow(c, sessionOk, MaxSandboxes)

\* connect_sandbox
TmuxConnect(c, id) ==
    /\ backend = "tmux" /\ pc[c] = "idle"
    /\ IF ~session_exists(id)
       THEN /\ ret' = [ret EXCEPT ![c] =
                         LifeRet("connect", id, "not_found", FALSE, FALSE, FALSE)]
            /\ UNCHANGED <<sessTable, tableInfo>>
       ELSE /\ sessTable' = IF id \notin sessTable /\ id \in sideFiles
                            THEN sessTable \cup {id} ELSE sessTable
            /\ tableInfo' = IF id \notin sessTable /\ id \in sideFiles
                            THEN [tableInfo EXCEPT ![id] = ParseSessionInfo(sideInfo[id])]
                            ELSE tableInfo
            /\ ret' = [ret EXCEPT ![c] = LifeRet("connect", id, "ok", TRUE, TRUE, FALSE)]
    /\ UNCHANGED <<fileVars, envVars, sideInfo, labels, heldCfg, nextId, workspaces,
                   sessions, sideFiles, pty, running, capFile, teeLive, dockerVars,
                   callVars, killLog, killedOk, faults, nBg>>

\* Where get_sandbox_info and list_sandboxes take created_at, metadata and
\* template of the session named id from:
\* self._sessions.get(id) or self._load_session_info(id), else defaults.
InfoSource(id) ==
    IF id \in sessTable THEN "table"
    ELSE IF id \in sideFiles THEN "side_file" ELSE "default"

\* session_info.get("metadata", {}) of that record
SessionMetadata(id) ==
    CASE InfoSource(id) = "table" -> tableInfo[id].metadata
      [] InfoSource(id) = "side_file" -> ParseSessionInfo(sideInfo[id]).metadata
      [] OTHER -> NoMetadata

\* get_sandbox_info
TmuxInfo(c, id) ==
    /\ backend = "tmux" /\ pc[c] = "idle"
    /\ ret' = [ret EXCEPT ![c] =
                 IF ~session_exists(id)
                 THEN LifeRet("info", id, "not_found", FALSE, FALSE, FALSE)
                 ELSE [LifeRet("info", id, "running", TRUE, TRUE, FALSE)
                         EXCEPT !.meta = InfoSource(id),
                                !.metadata = SessionMetadata(id)]]
    /\ UNCHANGED <<fileVars, confVars, nextId, workspaces, tmuxVars, dockerVars, callVars,
                   killLog, killedOk, faults, nBg>>

\* is_sandbox_running
TmuxIsRunning(c, id) ==
    /\ backend = "tmux" /\ pc[c] = "idle"
    /\ ret' = [ret EXCEPT ![c] =
                 LifeRet("is_running", id, "ok", session_exists(id),
                         session_exists(id), FALSE)]
    /\ UNCHANGED <<fileVars, confVars, nextId, workspaces, tmuxVars, dockerVars, callVars,
                   killLog, killedOk, faults, nBg>>

\* A kill-session that leaves the session in place.
SessionKept(S, id) == S

\* tmux kill-session -t <id>, failures ignored (check=False)
KillSession(S, id) == S \ {id}

\* What kill_sandbox returns once kill-session, the workspace cleanup and the
\* side-file removal have all gone through.
TmuxKillResult(existed) == TRUE

\* shutil.rmtree(workspace): what is left of fs without the files and
\* directories below the workspace directory of sandbox id.
Rmtree(id) == {e \in fs : ~(e.loc.root = "ws" /\ e.loc.id = id)}

\* A removal that leaves the side file in place.
SideFileKept(F, id) == F

\* info_path.unlink() if the side file exists
Unlinked(F, id) == F \ {id}

\* kill_sandbox; rmOk: shutil.rmtree(workspace) goes through; when it does
\* not, it may have removed the files below the workspace already.
TmuxKill(c, id, rmOk) ==
    /\ backend = "tmux" /\ pc[c] = "idle"
    /\ sessions' = KillSession(sessions, id)
    /\ pty' = [pty EXCEPT ![id] = <<>>]
    /\ running' = [running EXCEPT ![id] = NoCmd]
    /\ teeLive' = [teeLive EXCEPT ![id] = FALSE]
    /\ IF cleanup_workspace /\ id \in workspaces /\ ~rmOk
       THEN /\ UNCHANGED <<workspaces, sideFiles, sessTable>>
            /\ fs' \in {fs, Rmtree(id)}
            /\ ret' = [ret EXCEPT ![c] =
                         LifeRet("kill", id, "ok", FALSE, session_exists(id), FALSE)]
            /\ killLog' = LogKill(id, FALSE)
            /\ killedOk' = NoteKill(id, FALSE)
            /\ faults' = faults \cup {id}
       ELSE /\ workspaces' = IF cleanup_workspace THEN workspaces \ {id} ELSE workspaces
            /\ fs' = IF cleanup_workspace /\ id \in workspaces THEN Rmtree(id) ELSE fs
            /\ sideFiles' = Unlinked(sideFiles, id)
            /\ sessTable' = sessTable \ {id}
            /\ ret' = [ret EXCEPT ![c] =
                         LifeRet("kill", id, "ok", TmuxKillResult(session_exists(id)),
                                 session_exists(id), FALSE)]
            /\ killLog' = LogKill(id, TmuxKillResult(session_exists(id)))
            /\ killedOk' = NoteKill(id, TmuxKillResult(session_exists(id)))
            /\ faults' = faults
    /\ lastWrite' = IF fs' # fs THEN NoWrite ELSE lastWrite
    /\ UNCHANGED <<nFileOps, confVars, nextId, capFile, dockerVars, callVars, nBg>>

\* A pause or resume that reports success.
PauseSucceeds(existed) == TRUE

\* What pause_sandbox and resume_sandbox return: False, after a warning that
\* tmux sessions do not support it.
TmuxPauseResult(existed) == FALSE

\* pause_sandbox / resume_sandbox
TmuxPauseResume(c, id, op) ==
    /\ backend = "tmux" /\ pc[c] = "idle"
    /\ ret' = [ret EXCEPT ![c] = LifeRet(op, id, "ok", TmuxPauseResult(session_exists(id)),
                                         session_exists(id), FALSE)]
    /\ UNCHANGED <<fileVars, confVars, nextId, workspaces, tmuxVars, dockerVars, callVars,
                   killLog, killedOk, faults, nBg>>

\* run_command_background
TmuxRunBackground(c, id) ==
    /\ backend = "tmux" /\ pc[c] = "idle"
    /\ IF ~session_exists(id)
       THEN /\ ret' = [ret EXCEPT ![c] =
                         LifeRet("run_bg", id, "not_found", FALSE, FALSE, FALSE)]
            /\ UNCHANGED <<pty, nBg>>
       ELSE /\ nBg < MaxBg
            /\ pty' = [pty EXCEPT ![id] =
                         Append(@, [kind |-> "bg", n |-> 0, k |-> 0, st |-> 0])]
            /\ nBg' = nBg + 1
            /\ ret' = [ret EXCEPT ![c] =
                         [LifeRet("run_bg", id, "ok", TRUE, TRUE, TRUE)
                            EXCEPT !.exit_code = 0, !.ws = ResolveWorkspace(id)]]
    /\ UNCHANGED <<fileVars, confVars, nextId, workspaces, sessions, sessTable, sideFiles,
                   running,
                   capFile, teeLive, dockerVars, callVars, killLog, killedOk, faults>>

\* run_command, entry: the session test, the marker, and the keys
\* "exec > >(tee <output_file>) 2>&1" typed into the pane.
TmuxRunStart(c, id, st, T) ==
    /\ backend = "tmux" /\ pc[c] = "idle" /\ nCalls < MaxCalls
    /\ IF ~session_exists(id)
       THEN /\ ret' = [ret EXCEPT ![c] =
                         LifeRet("run", id, "not_found", FALSE, FALSE, FALSE)]
            /\ UNCHANGED <<pty, pc, cur, nCalls>>
       ELSE /\ nCalls' = nCalls + 1
            /\ pty' = [pty EXCEPT ![id] =
                         Append(@, [kind |-> "redir", n |-> nCalls', k |-> 0, st |-> 0])]
            /\ cur' = [cur EXCEPT ![c] =
                         [NoCall EXCEPT !.sid = id, !.n = nCalls', !.st = st,
                                        !.k = NewExitMarker(nCalls),
                                        !.ws = ResolveWorkspace(id),
                                        !.T = EffectiveTimeout(T), !.exit_code = TimeoutCode]]
            /\ pc' = [pc EXCEPT ![c] = "settle"]
            /\ ret' = [ret EXCEPT ![c] = NoRet]
    /\ UNCHANGED <<fileVars, confVars, nextId, workspaces, sessions, sessTable, sideFiles,
                   running,
                   capFile, teeLive, dockerVars, killLog, killedOk, faults, nBg>>

\* run_command after time.sleep(0.1): the wrapped command
\* '<full_cmd>; echo "<exit_marker>$?"' is typed and the clock starts.
TmuxRunSend(c) ==
    /\ pc[c] = "settle"
    /\ IF ~session_exists(cur[c].sid)
       THEN /\ ret' = [ret EXCEPT ![c] =
                         [LifeRet("run", cur[c].sid, "exec_error", FALSE, TRUE, TRUE)
                            EXCEPT !.n = cur[c].n, !.k = cur[c].k, !.T = cur[c].T,
                                   !.st = cur[c].st]]
            /\ pc' = [pc EXCEPT ![c] = "idle"]
            /\ cur' = [cur EXCEPT ![c] = NoCall]
            /\ pty' = pty
       ELSE /\ pty' = [pty EXCEPT ![cur[c].sid] =
                         Append(@, [kind |-> "cmd", n |-> cur[c].n, k |-> cur[c].k,
                                    st |-> cur[c].st])]
            /\ cur' = [cur EXCEPT ![c].sent = @ + 1]
            /\ pc' = [pc EXCEPT ![c] = "poll"]
            /\ ret' = ret
    /\ UNCHANGED <<fileVars, confVars, nextId, workspaces, sessions, sessTable, sideFiles,
                   running,
                   capFile, teeLive, dockerVars, nCalls, killLog, killedOk, faults, nBg>>

\* Inside time.sleep(0.2) of a turn of the while loop: one tick goes by.
\* The turn is entered only if the loop test passes.
TmuxRunTick(c) ==
    /\ \/ pc[c] = "poll" /\ Polling(cur[c].elapsed, cur[c].T)
       \/ pc[c] = "sleep"
    /\ cur[c].slept < PollTicks - 1
    /\ cur' = [cur EXCEPT ![c].elapsed = @ + 1, ![c].slept = @ + 1]
    /\ pc' = [pc EXCEPT ![c] = "sleep"]
    /\ UNCHANGED <<fileVars, confVars, nextId, workspaces, tmuxVars, dockerVars, ret,
                   nCalls, killLog, killedOk,
                   faults, nBg>>

\* The sleep of the turn ends and the capture file is looked into for the
\* exit marker.
TmuxRunPoll(c) ==
    /\ \/ pc[c] = "poll" /\ Polling(cur[c].elapsed, cur[c].T)
       \/ pc[c] = "sleep"
    /\ cur[c].slept = PollTicks - 1
    /\ LET f == capFile[output_file(cur[c].sid)]
           k == cur[c].k
       IN  IF f.exists /\ Marks(f.content, k) # {}
           THEN /\ cur' = [cur EXCEPT ![c].elapsed = @ + 1, ![c].slept = 0,
                                      ![c].polls = @ + 1,
                                      ![c].output = SplitBefore(f.content, k),
                                      ![c].exit_code = ParseExitCode(SplitAfter(f.content, k))]
                /\ pc' = [pc EXCEPT ![c] = "cleanup"]
           ELSE /\ cur' = [cur EXCEPT ![c].elapsed = @ + 1, ![c].slept = 0,
                                      ![c].polls = @ + 1]
                /\ pc' = [pc EXCEPT ![c] = "poll"]
    /\ UNCHANGED <<fileVars, confVars, nextId, workspaces, tmuxVars, dockerVars, ret,
                   nCalls, killLog, killedOk,
                   faults, nBg>>

\* The loop ends because the deadline has passed.
TmuxRunDeadline(c) ==
    /\ pc[c] = "poll"
    /\ ~Polling(cur[c].elapsed, cur[c].T)
    /\ pc' = [pc EXCEPT ![c] = "cleanup"]
    /\ UNCHANGED <<fileVars, confVars, nextId, workspaces, tmuxVars, dockerVars, cur, ret,
                   nCalls, killLog, killedOk, faults, nBg>>

\* What is left of the capture file when run_command returns.
AfterCleanup(f) == NoFile

\* An interrupt typed into the pane: the command in it is ended.
InterruptSent(R, id) == [R EXCEPT ![id] = NoCmd]

\* What run_command does to the command in the pane once the loop is over,
\* marker seen or not: nothing is sent, the command is as it was.
LeftRunning(R, id) == R

\* Cleanup and return: output_file.unlink() if it exists, then the result.
TmuxRunReturn(c) ==
    /\ pc[c] = "cleanup"
    /\ LET id == cur[c].sid IN
       /\ capFile' = [capFile EXCEPT ![output_file(id)] = AfterCleanup(@)]
       /\ teeLive' = [teeLive EXCEPT ![id] =
                        IF capFile[output_file(id)].exists /\ ~capFile'[output_file(id)].exists
                        THEN FALSE ELSE @]
       /\ ret' = [ret EXCEPT ![c] =
                    [LifeRet("run", id, "ok", TRUE, TRUE, TRUE)
                       EXCEPT !.n = cur[c].n, !.k = cur[c].k,
                              !.exit_code = cur[c].exit_code,
                              !.stdout = cur[c].output, !.elapsed = cur[c].elapsed,
                              !.T = cur[c].T, !.st = cur[c].st,
                              !.sent = cur[c].sent, !.seen = cur[c].seen,
                              !.polls = cur[c].polls, !.ws = cur[c].ws]]
       /\ running' = LeftRunning(running, id)
    /\ pc' = [pc EXCEPT ![c] = "idle"]
    /\ cur' = [cur EXCEPT ![c] = NoCall]
    /\ UNCHANGED <<fileVars, confVars, nextId, workspaces, sessions, sessTable, sideFiles, pty,
                   dockerVars, nCalls, killLog, killedOk, faults, nBg>>

\* ------------------------------------------------- the shell in the pane
\* An idle shell reads the next typed line.  A redirect line opens the
\* capture file anew (tee truncates it); a command line starts running, and
\* a shell that edits lines on stderr has by then written the typed text,
\* marker included, into the redirected stream.
EchoOf(line) ==
    IF line.kind = "cmd"
    THEN <<Tok("echo", line.n), Tok("mark", line.k), Tok("lit", 0)>>
    ELSE <<Tok("echo", line.n)>>

ShellRead(id) ==
    /\ session_exists(id) /\ running[id] = NoCmd /\ pty[id] # <<>>
    /\ LET line == Head(pty[id]) IN
       /\ pty' = [pty EXCEPT ![id] = Tail(@)]
       /\ IF line.kind = "redir"
          THEN /\ capFile' = [capFile EXCEPT ![output_file(id)] =
                                 [exists |-> TRUE, content |-> <<>>]]
               /\ teeLive' = [teeLive EXCEPT ![id] = TRUE]
               /\ UNCHANGED <<running, cur>>
          ELSE /\ capFile' =
                     LET echoed == IF echoStderr THEN EchoOf(line) ELSE <<>>
                         printed == IF line.kind = "bg" THEN <<Tok("pid", 0)>> ELSE <<>>
                     IN  Emit(id, echoed \o printed)
               /\ running' = [running EXCEPT ![id] =
                                IF line.kind = "cmd"
                                THEN [n |-> line.n, k |-> line.k, st |-> line.st]
                                ELSE NoCmd]
               /\ cur' = IF echoStderr /\ line.kind = "cmd"
                         THEN Reached(id, line.k) ELSE cur
               /\ teeLive' = teeLive
    /\ UNCHANGED <<fileVars, confVars, nextId, workspaces, sessions, sessTable, sideFiles,
                   dockerVars, pc, ret, nCalls, killLog, killedOk, faults, nBg>>

\* The running command ends: its output, then the trailing echo of the
\* marker and $?.
ShellFinish(id) ==
    /\ session_exists(id) /\ running[id] # NoCmd
    /\ LET r == running[id] IN
       /\ capFile' = Emit(id, <<Tok("out", r.n), Tok("mark", r.k), Tok("st", r.st)>>)
       /\ cur' = Reached(id, r.k)
    /\ running' = [running EXCEPT ![id] = NoCmd]
    /\ UNCHANGED <<fileVars, confVars, nextId, workspaces, sessions, sessTable, sideFiles, pty,
                   teeLive, dockerVars, pc, ret, nCalls, killLog, killedOk, faults, nBg>>

\* ------------------------------------------------- tmux file operations
StartsWithWorkspace(p) == Len(p) >= 2 /\ p[1] = "/" /\ p[2] = "workspace"

\* workspace / rest: pathlib drops the left side when rest is absolute
PathJoin(id, rest) ==
    IF rest # <<>> /\ Head(rest) = "/"
    THEN Loc("host", 0, Tail(rest)) ELSE Loc("ws", id, rest)

\* _get_full_path: path[10:] below the workspace for a "/workspace" prefix,
\* path[1:] for another leading "/", else the path itself
get_full_path(id, p) ==
    IF StartsWithWorkspace(p) THEN PathJoin(id, Tail(Tail(p)))
    ELSE IF p # <<>> /\ Head(p) = "/" THEN PathJoin(id, Tail(p))
    ELSE PathJoin(id, p)

\* The backend has a session by that name or an entry in _sessions.
TmuxKnown(id) == session_exists(id) \/ id \in sessTable

\* parent.mkdir(parents=True, exist_ok=True) below a workspace directory
\* makes the workspace directory as well.
WithParents(loc, id) == IF loc.root = "ws" THEN workspaces \cup {id} ELSE workspaces

TmuxFileFrame == UNCHANGED <<confVars, nextId, tmuxVars, dockerVars, callVars, histVars>>

\* write_file (text = TRUE) and write_file_bytes (text = FALSE)
TmuxWriteFile(c, id, p, data, text) ==
    /\ backend = "tmux" /\ pc[c] = "idle" /\ nFileOps < MaxFileOps
    /\ nFileOps' = nFileOps + 1
    /\ LET loc == get_full_path(id, p)
           op == IF text THEN "write_file" ELSE "write_file_bytes"
       IN  /\ workspaces' = WithParents(loc, id)
           /\ IF IsDir(loc)
              THEN /\ UNCHANGED <<fs, lastWrite>>
                   /\ ret' = [ret EXCEPT ![c] =
                                FileRet(op, id, p, "os_error", FALSE, <<>>, TmuxKnown(id),
                                        workspaces' # workspaces)]
              ELSE /\ fs' = Put(loc, "file", IF text THEN WriteText(data) ELSE data)
                   /\ lastWrite' = Written(id, p, text, data)
                   /\ ret' = [ret EXCEPT ![c] =
                                FileRet(op, id, p, "ok", TRUE, <<>>, TmuxKnown(id), TRUE)]
    /\ TmuxFileFrame

\* read_file (text = TRUE) and read_file_bytes (text = FALSE)
TmuxReadFile(c, id, p, text) ==
    /\ backend = "tmux" /\ pc[c] = "idle" /\ nFileOps < MaxFileOps
    /\ nFileOps' = nFileOps + 1
    /\ LET loc == get_full_path(id, p)
           op == IF text THEN "read_file" ELSE "read_file_bytes"
           res == IF ~Exists(loc) THEN "file_error"
                  ELSE IF IsDir(loc) \/ (text /\ ~Utf8Valid(DataAt(loc))) THEN "os_error"
                  ELSE "ok"
           data == IF res # "ok" THEN <<>>
                   ELSE IF text THEN ReadText(DataAt(loc)) ELSE DataAt(loc)
       IN  ret' = [ret EXCEPT ![c] =
                     FileRet(op, id, p, res, res = "ok", data, TmuxKnown(id), FALSE)]
    /\ UNCHANGED <<fs, lastWrite, workspaces>>
    /\ TmuxFileFrame

\* file_exists, get_file_info and list_files
TmuxQueryFile(c, id, p, op) ==
    /\ backend = "tmux" /\ pc[c] = "idle" /\ nFileOps < MaxFileOps
    /\ nFileOps' = nFileOps + 1
    /\ LET loc == get_full_path(id, p)
           res == IF op = "get_file_info" /\ ~Exists(loc) THEN "file_error"
                  ELSE IF op = "list_files" /\ IsFile(loc) THEN "os_error"
                  ELSE "ok"
           val == IF op = "file_exists" THEN Exists(loc)
                  ELSE IF op = "get_file_info" THEN IsFile(loc)
                  ELSE \E e \in fs : e.loc # loc /\ Under(e.loc, loc)
       IN  ret' = [ret EXCEPT ![c] =
                     FileRet(op, id, p, res, res = "ok" /\ val, <<>>, TmuxKnown(id), FALSE)]
    /\ UNCHANGED <<fs, lastWrite, workspaces>>
    /\ TmuxFileFrame

\* remove_file
TmuxRemoveFile(c, id, p) ==
    /\ backend = "tmux" /\ pc[c] = "idle" /\ nFileOps < MaxFileOps
    /\ nFileOps' = nFileOps + 1
    /\ LET loc == get_full_path(id, p) IN
       IF ~Exists(loc)
       THEN /\ UNCHANGED <<fs, lastWrite>>
            /\ ret' = [ret EXCEPT ![c] =
                         FileRet("remove_file", id, p, "file_error", FALSE, <<>>,
                                 TmuxKnown(id), FALSE)]
       ELSE /\ fs' = Remove(loc)
            /\ lastWrite' = NoWrite
            /\ ret' = [ret EXCEPT ![c] =
                         FileRet("remove_file", id, p, "ok", TRUE, <<>>, TmuxKnown(id), TRUE)]
    /\ UNCHANGED workspaces
    /\ TmuxFileFrame

\* make_directory
TmuxMakeDirectory(c, id, p) ==
    /\ backend = "tmux" /\ pc[c] = "idle" /\ nFileOps < MaxFileOps
    /\ nFileOps' = nFileOps + 1
    /\ LET loc == get_full_path(id, p) IN
       /\ workspaces' = WithParents(loc, id)
       /\ fs' = IF Exists(loc) THEN fs ELSE Put(loc, "dir", <<>>)
       /\ lastWrite' = IF fs' # fs THEN NoWrite ELSE lastWrite
       /\ ret' = [ret EXCEPT ![c] =
                    FileRet("make_directory", id, p, IF IsFile(loc) THEN "os_error" ELSE "ok",
                            ~IsFile(loc), <<>>, TmuxKnown(id),
                            fs' # fs \/ workspaces' # workspaces)]
    /\ TmuxFileFrame

\* rename_file
TmuxRenameFile(c, id, old, new) ==
    /\ backend = "tmux" /\ pc[c] = "idle" /\ nFileOps < MaxFileOps
    /\ nFileOps' = nFileOps + 1
    /\ LET from == get_full_path(id, old)
           to == get_full_path(id, new)
       IN  IF ~Exists(from)
           THEN /\ UNCHANGED <<fs, lastWrite, workspaces>>
                /\ ret' = [ret EXCEPT ![c] =
                             FileRet("rename_file", id, old, "file_error", FALSE, <<>>,
                                     TmuxKnown(id), FALSE)]
           ELSE /\ workspaces' = WithParents(to, id)
                /\ IF Exists(to) /\ IsFile(to) # IsFile(from)
                   THEN /\ UNCHANGED <<fs, lastWrite>>
                        /\ ret' = [ret EXCEPT ![c] =
                                     FileRet("rename_file", id, old, "os_error", FALSE, <<>>,
                                             TmuxKnown(id), workspaces' # workspaces)]
                   ELSE /\ fs' = {e \in Remove(from) : e.loc # to} \cup
                                 {[e EXCEPT !.loc = to] : e \in Entry(from)}
                        /\ lastWrite' = NoWrite
                        /\ ret' = [ret EXCEPT ![c] =
                                     FileRet("rename_file", id, old, "ok", TRUE, <<>>,
                                             TmuxKnown(id), TRUE)]
    /\ TmuxFileFrame

\* -------------------------------------------------------- OrbStack backend
\* _get_container: the cached handle if the id is in _active_containers,
\* otherwise client.containers.get(id).
get_container(id) ==
    IF id \in activeContainers \/ containers[id] # "none" THEN "handle" ELSE "not_found"

\* A request through the handle is answered 404 by the runtime.
Gone(id) == containers[id] = "none"

\* create_sandbox(metadata=m) while fewer than max ids have been drawn;
\* runOk: client.containers.run goes through, which it never does when a
\* container of that name is there already.  The container carries the
\* labels made of m.
DockerCreateWith(c, runOk, max, m) ==
    /\ backend = "orbstack" /\ pc[c] = "idle" /\ nextId < max
    /\ LET id == GenerateSandboxId(nextId) IN
       /\ nextId' = id
       /\ workspaces' = workspaces \cup {id}
       /\ IF runOk /\ containers[id] = "none"
          THEN /\ containers' = [containers EXCEPT ![id] = "running"]
               /\ labels' = [labels EXCEPT ![id] = Labels(m)]
               /\ given' = [given EXCEPT ![id] = m]
               /\ activeContainers' = activeContainers \cup {id}
               /\ ret' = [ret EXCEPT ![c] =
                            [LifeRet("create", id, "ok", TRUE, FALSE, FALSE)
                               EXCEPT !.metadata = m]]
               /\ faults' = faults
          ELSE /\ UNCHANGED <<dockerVars, labels, given>>
               /\ ret' = [ret EXCEPT ![c] =
                            LifeRet("create", id, "creation_error", FALSE, FALSE, FALSE)]
               /\ faults' = faults \cup {id}
    /\ UNCHANGED <<fileVars, baseVars, sideInfo, tableInfo, heldCfg, tmuxVars, callVars,
                   killLog, killedOk, nBg>>

\* create_sandbox() without metadata
DockerCreateBelow(c, runOk, max) == DockerCreateWith(c, runOk, max, NoMetadata)

DockerCreate(c, runOk) == DockerCreateBelow(c, runOk, MaxSandboxes)

\* The states the container runtime reports, and a string it does not.
NativeStates == {"created", "running", "paused", "restarting", "removing", "exited", "dead"}
UnexpectedStates == {"unknown"}

\* SandboxStatus
SandboxStatuses == {"creating", "running", "paused", "stopped", "error"}

\* A mapping that takes every container for a running one.
MapToRunning(docker_status) == "running"

\* _map_status: mapping.get(docker_status, SandboxStatus.ERROR)
MapStatus(docker_status) ==
    CASE docker_status = "running" -> "running"
      [] docker_status = "paused" -> "paused"
      [] docker_status = "exited" -> "stopped"
      [] docker_status = "created" -> "creating"
      [] docker_status = "restarting" -> "creating"
      [] docker_status = "removing" -> "stopped"
      [] docker_status = "dead" -> "error"
      [] OTHER -> "error"

\* A start() that leaves the container as it was.
StartSkipped(docker_status) == docker_status

\* container.start() gone through
StartContainer(docker_status) == "running"

\* connect_sandbox: client.containers.get, start() unless running, cache.
\* startOk: the runtime starts the container, which it never does with a
\* paused one; a failed start() raises and nothing is cached.
DockerConnect(c, id, startOk) ==
    /\ backend = "orbstack" /\ pc[c] = "idle"
    /\ IF containers[id] = "none"
       THEN /\ ret' = [ret EXCEPT ![c] =
                         LifeRet("connect", id, "not_found", FALSE, FALSE, FALSE)]
            /\ UNCHANGED dockerVars
       ELSE IF containers[id] # "running" /\ (containers[id] = "paused" \/ ~startOk)
       THEN /\ ret' = [ret EXCEPT ![c] =
                         LifeRet("connect", id, "runtime_error", FALSE, TRUE, FALSE)]
            /\ UNCHANGED dockerVars
       ELSE /\ containers' = IF containers[id] # "running"
                             THEN [containers EXCEPT ![id] = StartContainer(@)]
                             ELSE containers
            /\ activeContainers' = activeContainers \cup {id}
            /\ ret' = [ret EXCEPT ![c] =
                         [LifeRet("connect", id, "ok", TRUE, TRUE, FALSE)
                            EXCEPT !.meta = IF containers[id] # "running"
                                            THEN "started" ELSE "attached"]]
    /\ UNCHANGED <<fileVars, confVars, nextId, workspaces, tmuxVars, callVars,
                   killLog, killedOk, faults, nBg>>

\* The main process of the container ends, or the runtime gives the
\* container up: the container stays, in state "exited" or "dead".
ContainerExits(id, to) ==
    /\ backend = "orbstack" /\ containers[id] = "running"
    /\ \A c \in Callers : pc[c] = "idle"
    /\ containers' = [containers EXCEPT ![id] = to]
    /\ UNCHANGED <<fileVars, confVars, nextId, workspaces, tmuxVars, activeContainers,
                   callVars, ret, histVars>>

\* get_sandbox_info: _get_container, reload(), status
DockerInfo(c, id) ==
    /\ backend = "orbstack" /\ pc[c] = "idle"
    /\ ret' = [ret EXCEPT ![c] =
                 IF get_container(id) = "not_found"
                 THEN LifeRet("info", id, "not_found", FALSE, FALSE, FALSE)
                 ELSE IF Gone(id)
                 THEN LifeRet("info", id, "runtime_error", FALSE, FALSE, FALSE)
                 ELSE [LifeRet("info", id, MapStatus(containers[id]), TRUE, TRUE, FALSE)
                         EXCEPT !.metadata = MetadataOf(labels[id])]]
    /\ UNCHANGED <<fileVars, confVars, nextId, workspaces, tmuxVars, dockerVars, callVars,
                   killLog, killedOk,
                   faults, nBg>>

\* is_sandbox_running: only SandboxNotFoundError is turned into False
DockerIsRunning(c, id) ==
    /\ backend = "orbstack" /\ pc[c] = "idle"
    /\ ret' = [ret EXCEPT ![c] =
                 IF get_container(id) = "not_found"
                 THEN LifeRet("is_running", id, "ok", FALSE, FALSE, FALSE)
                 ELSE IF Gone(id)
                 THEN LifeRet("is_running", id, "runtime_error", FALSE, FALSE, FALSE)
                 ELSE LifeRet("is_running", id, "ok", containers[id] = "running", TRUE, FALSE)]
    /\ UNCHANGED <<fileVars, confVars, nextId, workspaces, tmuxVars, dockerVars, callVars,
                   killLog, killedOk,
                   faults, nBg>>

\* kill_sandbox; rmOk: shutil.rmtree(workspace) goes through; when it does
\* not, it may have removed the files below the workspace already.
DockerKill(c, id, rmOk) ==
    /\ backend = "orbstack" /\ pc[c] = "idle"
    /\ IF get_container(id) = "not_found" \/ Gone(id)
       THEN /\ UNCHANGED <<workspaces, dockerVars, faults, fs>>
            /\ ret' = [ret EXCEPT ![c] = LifeRet("kill", id, "ok", FALSE, FALSE, FALSE)]
            /\ killLog' = LogKill(id, FALSE)
            /\ killedOk' = NoteKill(id, FALSE)
       ELSE /\ containers' = [containers EXCEPT ![id] = "none"]
            /\ IF cleanup_workspace /\ id \in workspaces /\ ~rmOk
               THEN /\ UNCHANGED <<workspaces, activeContainers>>
                    /\ fs' \in {fs, Rmtree(id)}
                    /\ ret' = [ret EXCEPT ![c] = LifeRet("kill", id, "ok", FALSE, TRUE, FALSE)]
                    /\ killLog' = LogKill(id, FALSE)
                    /\ killedOk' = NoteKill(id, FALSE)
                    /\ faults' = faults \cup {id}
               ELSE /\ workspaces' = IF cleanup_workspace THEN workspaces \ {id}
                                     ELSE workspaces
                    /\ fs' = IF cleanup_workspace /\ id \in workspaces THEN Rmtree(id)
                             ELSE fs
                    /\ activeContainers' = activeContainers \ {id}
                    /\ ret' = [ret EXCEPT ![c] = LifeRet("kill", id, "ok", TRUE, TRUE, FALSE)]
                    /\ killLog' = LogKill(id, TRUE)
                    /\ killedOk' = NoteKill(id, TRUE)
                    /\ faults' = faults
    /\ lastWrite' = IF fs' # fs THEN NoWrite ELSE lastWrite
    /\ UNCHANGED <<nFileOps, confVars, nextId, tmuxVars, callVars, nBg>>

\* pause_sandbox (from = "running") and resume_sandbox (from = "paused")
DockerPauseResume(c, id, op) ==
    /\ backend = "orbstack" /\ pc[c] = "idle"
    /\ LET from == IF op = "pause" THEN "running" ELSE "paused"
           to == IF op = "pause" THEN "paused" ELSE "running"
           ok == get_container(id) = "handle" /\ containers[id] = from
       IN  /\ containers' = IF ok THEN [containers EXCEPT ![id] = to] ELSE containers
           /\ ret' = [ret EXCEPT ![c] = LifeRet(op, id, "ok", ok, ~Gone(id), FALSE)]
    /\ UNCHANGED <<fileVars, confVars, nextId, workspaces, tmuxVars, activeContainers, callVars,
                   killLog, killedOk, faults, nBg>>

\* run_command (bg = FALSE) and run_command_background (bg = TRUE):
\* _get_container, then one synchronous exec_run; the timeout is not used.
DockerExec(c, id, st, bg) ==
    /\ backend = "orbstack" /\ pc[c] = "idle" /\ nCalls < MaxCalls
    /\ LET op == IF bg THEN "run_bg" ELSE "run" IN
       IF get_container(id) = "not_found"
       THEN /\ ret' = [ret EXCEPT ![c] = LifeRet(op, id, "not_found", FALSE, FALSE, FALSE)]
            /\ nCalls' = nCalls
       ELSE IF containers[id] # "running"
       THEN /\ ret' = [ret EXCEPT ![c] = LifeRet(op, id, "exec_error", FALSE, ~Gone(id), TRUE)]
            /\ nCalls' = nCalls
       ELSE /\ nCalls' = nCalls + 1
            /\ ret' = [ret EXCEPT ![c] =
                         [LifeRet(op, id, "ok", TRUE, TRUE, TRUE)
                            EXCEPT !.n = nCalls', !.st = st, !.sent = 1, !.seen = "intime",
                                   !.exit_code = IF bg THEN 0 ELSE st,
                                   !.stdout = IF bg THEN <<>> ELSE <<Tok("out", nCalls')>>]]
    /\ UNCHANGED <<fileVars, confVars, nextId, workspaces, tmuxVars, dockerVars, pc, cur,
                   killLog, killedOk,
                   faults, nBg>>

\* ---------------------------------------------- OrbStack file operations
\* The archive endpoints take a path from the root of the container.
FromRoot(p) == IF p # <<>> /\ Head(p) = "/" THEN Tail(p) ELSE p

\* A place in the container, r taken from its root: /workspace is the bind
\* mount of the host workspace directory.
CtrLoc(id, r) ==
    IF r # <<>> /\ Head(r) = "workspace" /\ (Tail(r) = <<>> \/ Head(Tail(r)) = "/")
    THEN Loc("ws", id, IF Tail(r) = <<>> THEN <<>> ELSE Tail(Tail(r)))
    ELSE Loc("ctr", id, r)

ResolveArchive(id, p) == CtrLoc(id, FromRoot(p))

\* A path given to /bin/sh -c in the working directory /workspace.
ResolveExec(id, p) ==
    IF p # <<>> /\ Head(p) = "/" THEN CtrLoc(id, Tail(p)) ELSE Loc("ws", id, p)

LastSlash(p) ==
    IF \E i \in 1 .. Len(p) : p[i] = "/"
    THEN CHOOSE i \in 1 .. Len(p) :
             p[i] = "/" /\ \A j \in 1 .. Len(p) : p[j] = "/" => j <= i
    ELSE 0

\* os.path.basename and os.path.dirname
Basename(p) == SubSeq(p, LastSlash(p) + 1, Len(p))
Dirname(p) ==
    IF LastSlash(p) = 0 THEN <<>>
    ELSE IF \A i \in 1 .. LastSlash(p) : p[i] = "/" THEN SubSeq(p, 1, LastSlash(p))
    ELSE SubSeq(p, 1, LastSlash(p) - 1)

\* put_archive(os.path.dirname(path) or "/workspace", tar of basename(path))
PutTarget(id, p) ==
    LET directory == IF Dirname(p) = <<>> THEN <<"/", "workspace">> ELSE Dirname(p)
    IN  ResolveArchive(id, directory \o <<"/">> \o Basename(p))

DockerFileFrame ==
    UNCHANGED <<confVars, nextId, workspaces, tmuxVars, dockerVars, callVars, histVars>>

\* write_file (text = TRUE) and write_file_bytes (text = FALSE)
DockerWriteFile(c, id, p, data, text) ==
    /\ backend = "orbstack" /\ pc[c] = "idle" /\ nFileOps < MaxFileOps
    /\ nFileOps' = nFileOps + 1
    /\ LET loc == PutTarget(id, p)
           op == IF text THEN "write_file" ELSE "write_file_bytes"
       IN  IF get_container(id) = "not_found"
           THEN /\ UNCHANGED <<fs, lastWrite>>
                /\ ret' = [ret EXCEPT ![c] =
                             FileRet(op, id, p, "not_found", FALSE, <<>>, FALSE, FALSE)]
           ELSE IF Gone(id) \/ IsDir(loc)
           THEN /\ UNCHANGED <<fs, lastWrite>>
                /\ ret' = [ret EXCEPT ![c] =
                             FileRet(op, id, p, "file_error", FALSE, <<>>, ~Gone(id), FALSE)]
           ELSE /\ fs' = Put(loc, "file", IF text THEN EncodeUtf8(data) ELSE data)
                /\ lastWrite' = Written(id, p, text, data)
                /\ ret' = [ret EXCEPT ![c] =
                             FileRet(op, id, p, "ok", TRUE, <<>>, TRUE, TRUE)]
    /\ DockerFileFrame

\* read_file (text = TRUE) and read_file_bytes (text = FALSE)
DockerReadFile(c, id, p, text) ==
    /\ backend = "orbstack" /\ pc[c] = "idle" /\ nFileOps < MaxFileOps
    /\ nFileOps' = nFileOps + 1
    /\ LET loc == ResolveArchive(id, p)
           op == IF text THEN "read_file" ELSE "read_file_bytes"
           res == IF get_container(id) = "not_found" THEN "not_found"
                  ELSE IF Gone(id) \/ ~IsFile(loc) THEN "file_error"
                  ELSE IF text /\ ~Utf8Valid(DataAt(loc)) THEN "os_error"
                  ELSE "ok"
           data == IF res # "ok" THEN <<>>
                   ELSE IF text THEN DecodeUtf8(DataAt(loc)) ELSE DataAt(loc)
       IN  ret' = [ret EXCEPT ![c] =
                     FileRet(op, id, p, res, res = "ok", data, ~Gone(id), FALSE)]
    /\ UNCHANGED <<fs, lastWrite>>
    /\ DockerFileFrame

\* file_exists, get_file_info and list_files: one exec of test, stat or find
DockerQueryFile(c, id, p, op) ==
    /\ backend = "orbstack" /\ pc[c] = "idle" /\ nFileOps < MaxFileOps
    /\ nFileOps' = nFileOps + 1
    /\ LET loc == ResolveExec(id, p)
           res == IF get_container(id) = "not_found" THEN "not_found"
                  ELSE IF containers[id] # "running" THEN "runtime_error"
                  ELSE IF op = "get_file_info" /\ ~Exists(loc) THEN "file_error"
                  ELSE "ok"
           val == IF op = "file_exists" THEN Exists(loc)
                  ELSE IF op = "get_file_info" THEN IsFile(loc)
                  ELSE Exists(loc)
       IN  ret' = [ret EXCEPT ![c] =
                     FileRet(op, id, p, res, res = "ok" /\ val, <<>>, ~Gone(id), FALSE)]
    /\ UNCHANGED <<fs, lastWrite>>
    /\ DockerFileFrame

\* remove_file (rm -rf) and make_directory (mkdir -p)
DockerChangeFile(c, id, p, op) ==
    /\ backend = "orbstack" /\ pc[c] = "idle" /\ nFileOps < MaxFileOps
    /\ nFileOps' = nFileOps + 1
    /\ LET loc == ResolveExec(id, p) IN
       IF get_container(id) = "not_found" \/ containers[id] # "running"
       THEN /\ UNCHANGED <<fs, lastWrite>>
            /\ ret' = [ret EXCEPT ![c] =
                         FileRet(op, id, p,
                                 IF get_container(id) = "not_found" THEN "not_found"
                                 ELSE "runtime_error",
                                 FALSE, <<>>, ~Gone(id), FALSE)]
       ELSE /\ fs' = IF op = "remove_file" THEN Remove(loc)
                     ELSE IF Exists(loc) THEN fs ELSE Put(loc, "dir", <<>>)
            /\ lastWrite' = IF fs' # fs THEN NoWrite ELSE lastWrite
            /\ ret' = [ret EXCEPT ![c] =
                         FileRet(op, id, p, "ok", op = "remove_file" \/ ~IsFile(loc), <<>>,
                                 TRUE, fs' # fs)]
    /\ DockerFileFrame

\* rename_file: mv old new, then get_file_info(new)
DockerRenameFile(c, id, old, new) ==
    /\ backend = "orbstack" /\ pc[c] = "idle" /\ nFileOps < MaxFileOps
    /\ nFileOps' = nFileOps + 1
    /\ LET from == ResolveExec(id, old)
           to == IF IsDir(ResolveExec(id, new)) /\ from # ResolveExec(id, new)
                 THEN ResolveExec(id, new \o <<"/">> \o Basename(old))
                 ELSE ResolveExec(id, new)
           res == IF get_container(id) = "not_found" THEN "not_found"
                  ELSE IF containers[id] # "running" THEN "runtime_error"
                  ELSE IF ~Exists(from) \/ (IsDir(from) /\ IsFile(to)) THEN "file_error"
                  ELSE "ok"
       IN  /\ fs' = IF res = "ok"
                    THEN {e \in Remove(from) : e.loc # to} \cup
                         {[e EXCEPT !.loc = to] : e \in Entry(from)}
                    ELSE fs
           /\ lastWrite' = IF res = "ok" THEN NoWrite ELSE lastWrite
           /\ ret' = [ret EXCEPT ![c] =
                        FileRet("rename_file", id, old, res, res = "ok", <<>>, ~Gone(id),
                                res = "ok")]
    /\ DockerFileFrame

\* ----------------------------------------------------------- next-state
\* The ids create_sandbox has handed out.
Issued == 1 .. nextId

\* The ids a caller can pass: those create_sandbox has handed out, and ids
\* that no sandbox has or will have.
Known == {i \in Ids : i <= nextId \/ i > MaxSandboxes}

TmuxLifecycle(c) ==
    \/ \E id \in Known : TmuxConnect(c, id)
    \/ \E id \in Known : TmuxInfo(c, id)
    \/ \E id \in Known : TmuxIsRunning(c, id)
    \/ \E id \in Known, ok \in BOOLEAN : TmuxKill(c, id, ok)
    \/ \E id \in Known, op \in {"pause", "resume"} : TmuxPauseResume(c, id, op)
    \/ \E id \in Known : TmuxRunBackground(c, id)

TmuxRun(c) ==
    \/ TmuxRunSend(c)
    \/ TmuxRunTick(c)
    \/ TmuxRunPoll(c)
    \/ TmuxRunDeadline(c)
    \/ TmuxRunReturn(c)

Shell ==
    \/ \E id \in Known : ShellRead(id)
    \/ \E id \in Known : ShellFinish(id)

\* Command execution by one client thread.
Next ==
    \/ \E c \in SeqCallers : TmuxCreate(c, TRUE)
    \/ \E c \in SeqCallers, id \in Known, st \in Statuses, T \in Timeouts :
          TmuxRunStart(c, id, st, T)
    \/ \E c \in SeqCallers : TmuxRun(c)
    \/ Shell

DockerLifecycle(c) ==
    \/ \E ok \in BOOLEAN : DockerCreate(c, ok)
    \/ \E id \in Known : DockerConnect(c, id, TRUE)
    \/ \E id \in Known : DockerInfo(c, id)
    \/ \E id \in Known : DockerIsRunning(c, id)
    \/ \E id \in Known, ok \in BOOLEAN : DockerKill(c, id, ok)
    \/ \E id \in Known, op \in {"pause", "resume"} : DockerPauseResume(c, id, op)
    \/ \E id \in Known, st \in Statuses, bg \in BOOLEAN : DockerExec(c, id, st, bg)

InitRun == Init /\ cleanup_workspace = FALSE /\ backend = "tmux" /\ foreign = {}

Spec == InitRun /\ [][Next]_vars

\* Command execution by two client threads sharing the backend instance.
NextConc ==
    \/ \E c \in Callers : TmuxCreate(c, TRUE)
    \/ \E c \in Callers, id \in Known, st \in Statuses, T \in ConcTimeouts :
          nCalls < MaxConcCalls /\ TmuxRunStart(c, id, st, T)
    \/ \E c \in Callers : TmuxRun(c)
    \/ Shell

SpecConc == InitRun /\ [][NextConc]_vars

\* The lifecycle of sandboxes on either backend, used by one client thread;
\* the workspace cleanup is configured or not, and creating a session or
\* container and removing a workspace may fail.
NextLife ==
    \/ \E c \in SeqCallers, ok \in BOOLEAN : TmuxCreate(c, ok)
    \/ \E c \in SeqCallers : TmuxLifecycle(c)
    \/ \E c \in SeqCallers, id \in Known, T \in ConcTimeouts :
          nCalls < MaxLifeCalls /\ TmuxRunStart(c, id, 0, T)
    \/ \E c \in SeqCallers : TmuxRun(c)
    \/ Shell
    \/ \E c \in SeqCallers : DockerLifecycle(c)

InitLife == Init /\ echoStderr = FALSE /\ foreign = {}

SpecLife == InitLife /\ [][NextLife]_vars

\* File operations on either backend by one client thread.
QueryOps == {"file_exists", "get_file_info", "list_files"}
ChangeOps == {"remove_file", "make_directory"}

TmuxFiles(c) ==
    \/ \E id \in Known, p \in Paths, t \in Texts : TmuxWriteFile(c, id, p, t, TRUE)
    \/ \E id \in Known, p \in Paths, b \in Blobs : TmuxWriteFile(c, id, p, b, FALSE)
    \/ \E id \in Known, p \in Paths, text \in BOOLEAN : TmuxReadFile(c, id, p, text)
    \/ \E id \in Known, p \in Paths, op \in QueryOps : TmuxQueryFile(c, id, p, op)
    \/ \E id \in Known, p \in Paths : TmuxRemoveFile(c, id, p)
    \/ \E id \in Known, p \in Paths : TmuxMakeDirectory(c, id, p)
    \/ \E id \in Known, old \in Paths, new \in Paths : TmuxRenameFile(c, id, old, new)

DockerFiles(c) ==
    \/ \E id \in Known, p \in Paths, t \in Texts : DockerWriteFile(c, id, p, t, TRUE)
    \/ \E id \in Known, p \in Paths, b \in Blobs : DockerWriteFile(c, id, p, b, FALSE)
    \/ \E id \in Known, p \in Paths, text \in BOOLEAN : DockerReadFile(c, id, p, text)
    \/ \E id \in Known, p \in Paths, op \in QueryOps : DockerQueryFile(c, id, p, op)
    \/ \E id \in Known, p \in Paths, op \in ChangeOps : DockerChangeFile(c, id, p, op)
    \/ \E id \in Known, old \in Paths, new \in Paths : DockerRenameFile(c, id, old, new)

NextFiles ==
    \/ \E c \in SeqCallers : TmuxCreate(c, TRUE)
    \/ \E c \in SeqCallers : DockerCreate(c, TRUE)
    \/ \E c \in SeqCallers : TmuxFiles(c)
    \/ \E c \in SeqCallers : DockerFiles(c)

InitFiles == Init /\ echoStderr = FALSE /\ cleanup_workspace = FALSE /\ foreign = {}

SpecFiles == InitFiles /\ [][NextFiles]_vars


\* ------------------------------------------------------ listing sandboxes
SandboxName(id) == IF backend = "tmux" THEN TmuxSandboxId(id) ELSE DockerSandboxId(id)

\* session_name.startswith(self.SESSION_PREFIX)
HasSessionPrefix(name) == name[1] = "sbx"

\* The sequences that hold every element of S once.
Orderings(S) ==
    {q \in [1 .. Cardinality(S) -> S] : \A i, j \in 1 .. Cardinality(S) : q[i] = q[j] => i = j}

\* The loop of TmuxBackend.list_sandboxes over the lines of list-sessions:
\* a line with the prefix is appended, and the loop stops once the result is
\* as long as the limit.
RECURSIVE ListLoop(_, _, _)
ListLoop(lines, sandboxes, limit) ==
    IF lines = <<>> THEN sandboxes
    ELSE IF HasSessionPrefix(Head(lines))
    THEN IF Len(sandboxes) + 1 >= limit
         THEN Append(sandboxes, Head(lines))
         ELSE ListLoop(Tail(lines), Append(sandboxes, Head(lines)), limit)
    ELSE ListLoop(Tail(lines), sandboxes, limit)

ListFrame ==
    UNCHANGED <<backend, cleanup_workspace, echoStderr, factoryVars, foreign, nextId,
                workspaces, tmuxVars, dockerVars, callVars, ret, histVars, fileVars,
                logVars, infoVars, registryVars, given>>

\* TmuxBackend.list_sandboxes(limit)
TmuxList(c, limit) ==
    /\ backend = "tmux" /\ pc[c] = "idle" /\ nLists < MaxLists
    /\ nLists' = nLists + 1
    /\ \E lines \in Orderings({SandboxName(i) : i \in sessions} \cup foreign) :
          LET names == ListLoop(lines, <<>>, limit) IN
          lastList' = [op |-> "list", limit |-> limit, upto |-> nextId,
                       names |-> names,
                       fromFile |-> {names[i] : i \in
                                       {j \in 1 .. Len(names) :
                                           /\ names[j][2] \in Ids
                                           /\ InfoSource(names[j][2]) = "side_file"}},
                       metas |-> {<<names[i], IF names[i][2] \in Ids
                                              THEN SessionMetadata(names[i][2])
                                              ELSE NoMetadata>> :
                                     i \in 1 .. Len(names)}]
    /\ ListFrame

\* The containers that carry the label agent-sandbox.created_by, the most
\* recently created first.  Only create_sandbox puts the label on.
RECURSIVE Labelled(_)
Labelled(n) ==
    IF n = 0 THEN <<>>
    ELSE (IF containers[n] # "none" THEN <<SandboxName(n)>> ELSE <<>>) \o Labelled(n - 1)

\* containers.list(all=True, filters={label}, limit=limit): the first `limit`
\* of them.  What the runtime makes of limit=0 is not settled in this
\* repository: it answers with none of them or, taking 0 as "no limit", with
\* all of them (unlimited).
EngineList(all, limit, unlimited) ==
    IF limit = 0
    THEN IF unlimited THEN all ELSE <<>>
    ELSE SubSeq(all, 1, IF Len(all) < limit THEN Len(all) ELSE limit)

\* OrbStackBackend.list_sandboxes(limit)
DockerList(c, limit, unlimited) ==
    /\ backend = "orbstack" /\ pc[c] = "idle" /\ nLists < MaxLists
    /\ nLists' = nLists + 1
    /\ LET names == EngineList(Labelled(nextId), limit, unlimited) IN
       lastList' = [op |-> "list", limit |-> limit, upto |-> nextId,
                    names |-> names, fromFile |-> {},
                    metas |-> {<<names[i], MetadataOf(labels[names[i][2]])>> :
                                  i \in 1 .. Len(names)}]
    /\ ListFrame

\* create_sandbox failing at a step other than new-session: making the
\* workspace directory ("mkdir"), a set-environment after the session was
\* made ("set_env"), or writing the side file after the entry went into
\* _sessions ("save_info").  The except clause raises SandboxCreationError
\* and undoes nothing.
TmuxCreateLate(c, step) ==
    /\ backend = "tmux" /\ pc[c] = "idle" /\ nextId < MaxSandboxes
    /\ LET id == GenerateSandboxId(nextId) IN
       /\ nextId' = id
       /\ workspaces' = IF step = "mkdir" THEN workspaces ELSE workspaces \cup {id}
       /\ sessions' = IF step = "mkdir" THEN sessions ELSE sessions \cup {id}
       /\ sessTable' = IF step = "save_info" THEN sessTable \cup {id} ELSE sessTable
       /\ tableInfo' = IF step = "save_info"
                       THEN [tableInfo EXCEPT ![id] = SessionInfo(heldCfg, NoMetadata)]
                       ELSE tableInfo
       /\ ret' = [ret EXCEPT ![c] =
                    LifeRet("create", id, "creation_error", FALSE, FALSE, FALSE)]
       /\ faults' = faults \cup {id}
    /\ UNCHANGED <<fileVars, envVars, sideInfo, labels, heldCfg, sideFiles, pty, running,
                   capFile, teeLive, dockerVars, callVars, killLog, killedOk, nBg>>

\* create_sandbox failing in workspace.mkdir ("mkdir"), or inside
\* client.containers.run after the container was created, when it is started
\* ("start"): the container stays, named and labelled, in state "created".
DockerCreateLate(c, step) ==
    /\ backend = "orbstack" /\ pc[c] = "idle" /\ nextId < MaxSandboxes
    /\ LET id == GenerateSandboxId(nextId) IN
       /\ nextId' = id
       /\ workspaces' = IF step = "mkdir" THEN workspaces ELSE workspaces \cup {id}
       /\ containers' = IF step = "start" THEN [containers EXCEPT ![id] = "created"]
                        ELSE containers
       /\ labels' = IF step = "start" THEN [labels EXCEPT ![id] = Labels(NoMetadata)]
                    ELSE labels
       /\ ret' = [ret EXCEPT ![c] =
                    LifeRet("create", id, "creation_error", FALSE, FALSE, FALSE)]
       /\ faults' = faults \cup {id}
    /\ UNCHANGED <<fileVars, envVars, sideInfo, tableInfo, heldCfg, tmuxVars,
                   activeContainers, callVars, killLog, killedOk, nBg>>

\* Creating and listing sandboxes on either backend, with sessions or
\* containers of other origin on the host.
NextList ==
    \/ \E c \in SeqCallers, ok \in BOOLEAN : TmuxCreate(c, ok)
    \/ \E c \in SeqCallers, step \in {"mkdir", "set_env", "save_info"} :
          TmuxCreateLate(c, step)
    \/ \E c \in SeqCallers, limit \in Limits : TmuxList(c, limit)
    \/ \E c \in SeqCallers, ok \in BOOLEAN : DockerCreate(c, ok)
    \/ \E c \in SeqCallers, step \in {"mkdir", "start"} : DockerCreateLate(c, step)
    \/ \E c \in SeqCallers, limit \in Limits, unlimited \in BOOLEAN :
          DockerList(c, limit, unlimited)

InitList == Init /\ echoStderr = FALSE /\ cleanup_workspace = FALSE

SpecList == InitList /\ [][NextList]_vars


\* ------------------------------------------ timed execution in a container
\* run_command on the container backend, entry: _get_container, then the
\* call of container.exec_run, which takes no timeout and blocks until the
\* command has ended.  dur is the running time of the command.
DockerRunStart(c, id, st, T, dur) ==
    /\ backend = "orbstack" /\ pc[c] = "idle" /\ nCalls < MaxCalls
    /\ IF get_container(id) = "not_found"
       THEN /\ ret' = [ret EXCEPT ![c] = LifeRet("run", id, "not_found", FALSE, FALSE, FALSE)]
            /\ UNCHANGED <<pc, cur, nCalls>>
       ELSE IF containers[id] # "running"
       THEN /\ ret' = [ret EXCEPT ![c] =
                         LifeRet("run", id, "exec_error", FALSE, ~Gone(id), TRUE)]
            /\ UNCHANGED <<pc, cur, nCalls>>
       ELSE /\ nCalls' = nCalls + 1
            /\ cur' = [cur EXCEPT ![c] =
                         [NoCall EXCEPT !.sid = id, !.n = nCalls', !.st = st, !.T = T,
                                        !.dur = dur, !.sent = 1]]
            /\ pc' = [pc EXCEPT ![c] = "exec"]
            /\ ret' = [ret EXCEPT ![c] = NoRet]
    /\ UNCHANGED <<fileVars, confVars, nextId, workspaces, tmuxVars, dockerVars,
                   histVars>>

\* A tick goes by while exec_run is waiting for the command.
DockerRunTick(c) ==
    /\ pc[c] = "exec" /\ cur[c].elapsed < MaxExecTicks
    /\ cur[c].dur = Forever \/ cur[c].elapsed < cur[c].dur
    /\ cur' = [cur EXCEPT ![c].elapsed = @ + 1]
    /\ UNCHANGED <<fileVars, confVars, nextId, workspaces, tmuxVars, dockerVars, pc, ret,
                   nCalls, histVars>>

\* The command has ended: exec_run returns and run_command builds the result.
DockerRunReturn(c) ==
    /\ pc[c] = "exec" /\ cur[c].dur # Forever /\ cur[c].elapsed >= cur[c].dur
    /\ ret' = [ret EXCEPT ![c] =
                 [LifeRet("run", cur[c].sid, "ok", TRUE, TRUE, TRUE)
                    EXCEPT !.n = cur[c].n, !.st = cur[c].st, !.sent = cur[c].sent,
                           !.T = cur[c].T, !.elapsed = cur[c].elapsed,
                           !.exit_code = cur[c].st,
                           !.stdout = <<Tok("out", cur[c].n)>>, !.seen = "intime"]]
    /\ pc' = [pc EXCEPT ![c] = "idle"]
    /\ cur' = [cur EXCEPT ![c] = NoCall]
    /\ UNCHANGED <<fileVars, confVars, nextId, workspaces, tmuxVars, dockerVars, nCalls,
                   histVars>>

\* Commands of every running time executed in a container by one thread.
NextExec ==
    \/ \E c \in SeqCallers : DockerCreate(c, TRUE)
    \/ \E c \in SeqCallers, id \in Known, st \in Statuses, T \in Timeouts, dur \in Durations :
          DockerRunStart(c, id, st, T, dur)
    \/ \E c \in SeqCallers : DockerRunTick(c)
    \/ \E c \in SeqCallers : DockerRunReturn(c)

InitExec == Init /\ backend = "orbstack" /\ echoStderr = FALSE /\ foreign = {}

SpecExec == InitExec /\ [][NextExec]_vars


\* --------------------------------------- two threads, each with a sandbox
\* Thread c runs its commands on sandbox c, both through one TmuxBackend.
NextPair ==
    \/ \E c \in Callers, st \in Statuses, T \in ConcTimeouts :
          nCalls < MaxPairCalls /\ TmuxRunStart(c, c, st, T)
    \/ \E c \in Callers : TmuxRun(c)
    \/ Shell

InitPair == Started(2) /\ backend = "tmux" /\ cleanup_workspace = FALSE /\ foreign = {}

SpecPair == InitPair /\ [][NextPair]_vars


\* ------------------------------------------------------- backend factory
BackendNames == {"tmux", "TMUX", "orbstack", "bogus"}
Configs == {1, 2}

\* backend_type.lower()
Lower(name) == IF name = "TMUX" THEN "tmux" ELSE name

\* A test that never finds an instance in the cache.
NoCacheHit(cache, name) == FALSE

\* cache and backend_type in cls._instances
CacheHit(cache, name) == cache /\ \E p \in instances : p[1] = name

\* cls._instances[backend_type]
Cached(name) == (CHOOSE p \in instances : p[1] = name)[2]

\* cls._instances[backend_type] = instance
CachePut(I, name, inst) == {p \in I : p[1] # name} \cup {<<name, inst>>}

\* A clear that leaves the entries in place.
CacheKept(I) == I

\* cls._instances.clear()
Cleared(I) == {}

\* _sessions or _active_containers of the instance in use
Table == IF backend = "tmux" THEN sessTable ELSE activeContainers

\* What a new instance starts with: _load_sessions takes the side files
\* whose session exists; _active_containers is empty.
Loaded == IF backend = "tmux" THEN {i \in sideFiles : session_exists(i)} ELSE {}

\* The side files _load_sessions passes over: their session is not there.
Skipped == IF backend = "tmux" THEN {i \in sideFiles : ~session_exists(i)} ELSE {}

\* The client goes on with instance n of the modelled backend type.
SwitchTo(n, table) ==
    /\ held' = n
    /\ shelved' = IF n = held THEN shelved ELSE [shelved EXCEPT ![held] = Table]
    /\ sessTable' = IF backend = "tmux" /\ n # held THEN table ELSE sessTable
    /\ activeContainers' = IF backend = "orbstack" /\ n # held THEN table
                           ELSE activeContainers

FactoryFrame ==
    UNCHANGED <<backend, cleanup_workspace, echoStderr, listVars, nextId, workspaces,
                sessions, sideFiles, pty, running, capFile, teeLive, containers,
                callVars, histVars, fileVars, sideInfo, labels, given>>

\* cls._backends[name.lower()] = backend_class
Registered(R, name, backend_class) ==
    {p \in R : p[1] # Lower(name)} \cup {<<Lower(name), backend_class>>}

\* if not cls._backends: cls._register_default_backends()
DefaultsIfEmpty(R) == IF R = {} THEN DefaultBackends ELSE R

\* cls._backends.get(backend_type) finds a class
HasClass(R, backend_type) == \E p \in R : p[1] = backend_type

\* An instance put into the cache before its validation has gone through.
StoreUnvalidated(I, name, inst, cache, valid) ==
    IF cache THEN CachePut(I, name, inst) ELSE I

\* instance = backend_class(config), which raises when _validate_config
\* does, and only after it: if cache: cls._instances[backend_type] = instance
StoreInstance(I, name, inst, cache, valid) ==
    IF valid /\ cache THEN CachePut(I, name, inst) ELSE I

\* The body of create_backend(name, config, cache), recorded as call op;
\* valid: the backend's _validate_config goes through
MakeBackend(c, op, name, cfg, cache, valid) ==
    /\ pc[c] = "idle"
    /\ ret' = [ret EXCEPT ![c] = NoRet]
    /\ LET backend_type == Lower(name)
           out == [NoMade EXCEPT !.op = op, !.name = name, !.cfg = cfg,
                                 !.cache = cache, !.empty = (instances = {}),
                                 !.had = IF \E p \in instances : p[1] = backend_type
                                         THEN Cached(backend_type) ELSE NoInstance]
       IN  IF CacheHit(cache, backend_type)
           THEN /\ lastMade' = [out EXCEPT !.res = "ok", !.inst = Cached(backend_type).n]
                /\ UNCHANGED <<instances, made, dropped, tableInfo, registry>>
                /\ IF backend_type = backend
                   THEN /\ SwitchTo(Cached(backend_type).n,
                                    shelved[Cached(backend_type).n])
                        /\ heldCfg' = Cached(backend_type).cfg
                   ELSE UNCHANGED <<held, shelved, sessTable, activeContainers, heldCfg>>
           ELSE /\ registry' = DefaultsIfEmpty(registry)
                /\ IF ~HasClass(registry', backend_type)
                   THEN /\ lastMade' = [out EXCEPT !.res = "invalid_backend"]
                        /\ UNCHANGED <<instances, made, held, shelved, sessTable,
                                       activeContainers, dropped, tableInfo, heldCfg>>
                   ELSE IF ~valid
                   THEN /\ lastMade' = [out EXCEPT !.res = "creation_error"]
                        /\ instances' = StoreInstance(instances, backend_type,
                                                      Instance(made + 1, backend_type, cfg),
                                                      cache, valid)
                        /\ UNCHANGED <<made, held, shelved, sessTable, activeContainers,
                                       dropped, tableInfo, heldCfg>>
                   ELSE /\ made < MaxInstances
                        /\ made' = made + 1
                        /\ instances' = StoreInstance(instances, backend_type,
                                                      Instance(made', backend_type, cfg),
                                                      cache, valid)
                        /\ lastMade' = [out EXCEPT !.res = "ok", !.inst = made',
                                                   !.built = TRUE]
                        /\ IF backend_type = backend
                           THEN /\ SwitchTo(made', Loaded) /\ dropped' = Skipped
                                /\ heldCfg' = cfg
                                /\ tableInfo' = [i \in Ids |->
                                                   IF i \in Loaded
                                                   THEN ParseSessionInfo(sideInfo[i])
                                                   ELSE tableInfo[i]]
                           ELSE UNCHANGED <<held, shelved, sessTable, activeContainers,
                                            dropped, heldCfg, tableInfo>>
    /\ FactoryFrame

\* BackendFactory.create_backend(name, config, cache)
CreateBackend(c, name, cfg, cache, valid) ==
    MakeBackend(c, "create_backend", name, cfg, cache, valid) /\ current' = current

\* BackendFactory.clear_cache()
ClearCache(c) ==
    /\ pc[c] = "idle"
    /\ ret' = [ret EXCEPT ![c] = NoRet]
    /\ instances' = Cleared(instances)
    /\ lastMade' = [NoMade EXCEPT !.op = "clear_cache", !.empty = (instances = {})]
    /\ UNCHANGED <<made, held, shelved, sessTable, activeContainers, dropped, tableInfo,
                   heldCfg, registryVars>>
    /\ FactoryFrame

\* BackendFactory.register_backend(name, backend_class)
RegisterBackend(c, name, backend_class) ==
    /\ pc[c] = "idle"
    /\ ret' = [ret EXCEPT ![c] = NoRet]
    /\ registry' = Registered(registry, name, backend_class)
    /\ lastMade' = [NoMade EXCEPT !.op = "register_backend", !.name = name,
                                  !.empty = (instances = {})]
    /\ UNCHANGED <<instances, made, held, shelved, sessTable, activeContainers, dropped,
                   tableInfo, heldCfg, current>>
    /\ FactoryFrame

\* BackendFactory.list_backends()
ListBackends(c) ==
    /\ pc[c] = "idle"
    /\ ret' = [ret EXCEPT ![c] = NoRet]
    /\ registry' = DefaultsIfEmpty(registry)
    /\ lastMade' = [NoMade EXCEPT !.op = "list_backends", !.empty = (instances = {})]
    /\ UNCHANGED <<instances, made, held, shelved, sessTable, activeContainers, dropped,
                   tableInfo, heldCfg, current>>
    /\ FactoryFrame

\* get_backend(backend_type, config); name "" stands for no backend_type.
\* Without a type the current backend is returned if there is one; else
\* the type defaults to "orbstack", create_backend(backend_type, config) is
\* called with cache=True, and what it returns becomes the current backend.
GetBackend(c, name, cfg, valid) ==
    IF name = "" /\ current # NoInstance
    THEN /\ pc[c] = "idle"
         /\ ret' = [ret EXCEPT ![c] = NoRet]
         /\ lastMade' = [NoMade EXCEPT !.op = "get_backend", !.res = "ok",
                                       !.inst = current.n,
                                       !.empty = (instances = {})]
         /\ IF current.cls = backend
            THEN SwitchTo(current.n, shelved[current.n]) /\ heldCfg' = current.cfg
            ELSE UNCHANGED <<held, shelved, sessTable, activeContainers, heldCfg>>
         /\ UNCHANGED <<instances, made, dropped, tableInfo, registryVars>>
         /\ FactoryFrame
    ELSE LET backend_type == IF name = "" THEN "orbstack" ELSE name IN
         /\ MakeBackend(c, "get_backend", backend_type, cfg, TRUE, valid)
         /\ current' = IF lastMade'.res # "ok" THEN current
                       ELSE IF lastMade'.built
                       THEN Instance(lastMade'.inst, Lower(backend_type), cfg)
                       ELSE Cached(Lower(backend_type))

\* A client thread that gets its backend from the factory, clears the cache
\* now and then, and creates and looks up sandboxes in between.
NextFactory ==
    \/ \E c \in SeqCallers, name \in BackendNames, cfg \in Configs, cache \in BOOLEAN,
          valid \in BOOLEAN : CreateBackend(c, name, cfg, cache, valid)
    \/ \E c \in SeqCallers : ClearCache(c)
    \/ \E c \in SeqCallers : TmuxCreate(c, TRUE)
    \/ \E c \in SeqCallers, id \in Known : TmuxConnect(c, id)
    \/ \E c \in SeqCallers : DockerCreate(c, TRUE)
    \/ \E c \in SeqCallers, id \in Known : DockerConnect(c, id, TRUE)

InitFactory == Init /\ echoStderr = FALSE /\ cleanup_workspace = FALSE /\ foreign = {}

SpecFactory == InitFactory /\ [][NextFactory]_vars


\* ------------------------------------------- sessions that end on their own
\* The session of sandbox id ends without kill_sandbox: its shell exits, or
\* the tmux server is stopped.  Side file and workspace stay on disk.
SessionEnds(id) ==
    /\ backend = "tmux" /\ session_exists(id)
    /\ \A c \in Callers : pc[c] = "idle"
    /\ sessions' = sessions \ {id}
    /\ pty' = [pty EXCEPT ![id] = <<>>]
    /\ running' = [running EXCEPT ![id] = NoCmd]
    /\ teeLive' = [teeLive EXCEPT ![id] = FALSE]
    /\ UNCHANGED <<fileVars, confVars, nextId, workspaces, sessTable, sideFiles, capFile,
                   dockerVars, callVars, ret, histVars>>

\* Something other than this backend makes a session under the name of a
\* sandbox whose session has ended (tmux new-session -s <id>, or a restore
\* of the server's sessions by name).
SessionAppears(id) ==
    /\ backend = "tmux" /\ ~session_exists(id)
    /\ sessions' = sessions \cup {id}
    /\ UNCHANGED <<fileVars, confVars, nextId, workspaces, sessTable, sideFiles, pty,
                   running, capFile, teeLive, dockerVars, callVars, ret, histVars>>

\* A client whose sessions may end under it, and which constructs a new
\* TmuxBackend on the same directories now and then.
NextRestart ==
    \/ \E c \in SeqCallers : TmuxCreate(c, TRUE)
    \/ \E id \in Issued : SessionEnds(id)
    \/ \E id \in Issued : SessionAppears(id)
    \/ \E c \in SeqCallers, cfg \in Configs : CreateBackend(c, "tmux", cfg, FALSE, TRUE)
    \/ \E c \in SeqCallers, id \in Issued : TmuxConnect(c, id)
    \/ \E c \in SeqCallers, id \in Issued : TmuxInfo(c, id)
    \/ \E c \in SeqCallers, limit \in Limits : TmuxList(c, limit)
    \/ \E c \in SeqCallers, id \in Issued : TmuxKill(c, id, TRUE)

InitRestart ==
    /\ Init /\ backend = "tmux" /\ echoStderr = FALSE /\ cleanup_workspace = FALSE
    /\ foreign = {}

SpecRestart == InitRestart /\ [][NextRestart]_vars

\* ------------------------------------------- containers that stop running
\* A client thread of the container backend, with containers that exit
\* or die on their own and a create_sandbox that may fail at the start of
\* the container.
NextStatus ==
    \/ \E c \in SeqCallers : DockerCreate(c, TRUE)
    \/ \E c \in SeqCallers : DockerCreateLate(c, "start")
    \/ \E id \in Issued, to \in {"exited", "dead"} : ContainerExits(id, to)
    \/ \E c \in SeqCallers, id \in Known, ok \in BOOLEAN : DockerConnect(c, id, ok)
    \/ \E c \in SeqCallers, id \in Known : DockerInfo(c, id)
    \/ \E c \in SeqCallers, id \in Known : DockerIsRunning(c, id)
    \/ \E c \in SeqCallers, id \in Known, op \in {"pause", "resume"} :
          DockerPauseResume(c, id, op)
    \/ \E c \in SeqCallers, id \in Known : nCalls < MaxLifeCalls /\ DockerExec(c, id, 0, FALSE)
    \/ \E c \in SeqCallers, id \in Known : DockerKill(c, id, TRUE)

InitStatus ==
    /\ Init /\ backend = "orbstack" /\ echoStderr = FALSE /\ cleanup_workspace = FALSE
    /\ foreign = {}

SpecStatus == InitStatus /\ [][NextStatus]_vars

\* ------------------------------------------- killing a sandbox with files
\* A client thread of the terminal backend that writes files into its
\* sandbox's workspace and kills the sandbox, with the workspace cleanup
\* configured or not.
NextKill ==
    \/ \E c \in SeqCallers : TmuxCreate(c, TRUE)
    \/ \E c \in SeqCallers, id \in Issued, p \in {PRel, PAbs} :
          TmuxWriteFile(c, id, p, <<"x", "LF">>, TRUE)
    \/ \E c \in SeqCallers, id \in Issued, ok \in BOOLEAN : TmuxKill(c, id, ok)

InitKill == Init /\ backend = "tmux" /\ echoStderr = FALSE /\ foreign = {}

SpecKill == InitKill /\ [][NextKill]_vars

\* ------------------------------------------------ several sandboxes in turn
\* Two client threads create sandboxes, look them up and kill them, on
\* either backend; creating may fail, removing a workspace may fail.
NextIds ==
    \/ \E c \in Callers, ok \in BOOLEAN : TmuxCreateBelow(c, ok, MaxCreates)
    \/ \E c \in Callers, id \in Issued : TmuxInfo(c, id)
    \/ \E c \in Callers, id \in Issued, ok \in BOOLEAN : TmuxKill(c, id, ok)
    \/ \E c \in Callers, ok \in BOOLEAN : DockerCreateBelow(c, ok, MaxCreates)
    \/ \E c \in Callers, id \in Issued : DockerInfo(c, id)
    \/ \E c \in Callers, id \in Issued, ok \in BOOLEAN : DockerKill(c, id, ok)

InitIds == Init /\ echoStderr = FALSE /\ foreign = {}

SpecIds == InitIds /\ [][NextIds]_vars

\* ------------------------------------------------ command execution claims
InFlight(c) == pc[c] # "idle"

Returned(c) == pc[c] = "idle" /\ ret[c].op = "run" /\ ret[c].res = "ok"

\* C1: the terminal backend serializes run_command calls made concurrently
\* on one sandbox id: the execution intervals of two such calls (from typing
\* the redirect to removing the capture file) never overlap.
C1_Serialized ==
    \A c1 \in Callers, c2 \in Callers :
        (c1 # c2 /\ InFlight(c1) /\ InFlight(c2)) => cur[c1].sid # cur[c2].sid

\* C2: of two run_command calls made one after the other on one sandbox id,
\* the later result holds neither an exit marker nor any output or typed
\* text of another call, whether the earlier call completed or timed out.
C2_NoCrossTalk ==
    \A c \in SeqCallers :
        Returned(c) =>
            \A i \in 1 .. Len(ret[c].stdout) :
                /\ ret[c].stdout[i][1] # "mark"
                /\ ret[c].stdout[i][1] \in {"out", "echo"} => ret[c].stdout[i][2] = ret[c].n

\* A later call on a sandbox returned output after an earlier call on it
\* had timed out.
C2_Witness ==
    \E c \in SeqCallers :
        /\ Returned(c) /\ ret[c].n >= 2
        /\ ret[c].exit_code # TimeoutCode
        /\ ret[c].stdout # <<>>

\* C3 as stated: a run_command with timeout T > 0 whose exit marker does
\* not get into the capture file before T has elapsed returns exit_code -1,
\* returns no later than T plus one polling interval, and has typed the
\* command exactly once.
C3_AsStated ==
    \A c \in SeqCallers :
        (Returned(c) /\ ret[c].T > 0 /\ ret[c].seen # "intime") =>
            /\ ret[c].exit_code = TimeoutCode
            /\ ret[c].elapsed <= ret[c].T + PollTicks
            /\ ret[c].sent = 1

\* C3: a run_command with timeout T > 0 whose exit marker does not get into
\* the capture file before the call's last look into it returns exit_code
\* -1, returns no later than T plus one polling interval on the clock
\* started at start_time, and has typed the command exactly once.
C3_Timeout ==
    \A c \in SeqCallers :
        (Returned(c) /\ ret[c].T > 0 /\ ret[c].seen = "no") =>
            /\ ret[c].exit_code = TimeoutCode
            /\ ret[c].elapsed <= ret[c].T + PollTicks
            /\ ret[c].sent = 1

\* A call has returned on its deadline without having met its marker.
C3_Witness ==
    \E c \in SeqCallers :
        Returned(c) /\ ret[c].seen = "no" /\ ret[c].elapsed >= ret[c].T

\* C4: a command that succeeds and prints o before the timeout yields a
\* result whose stdout contains o and whose exit_code is 0.
C4_SuccessOutput ==
    \A c \in SeqCallers :
        (Returned(c) /\ ret[c].seen = "intime" /\ ret[c].st = 0 /\ ret[c].n = 1) =>
            /\ ret[c].exit_code = 0
            /\ Has(ret[c].stdout, Tok("out", ret[c].n))

\* C5: a command that finishes with nonzero status s before the timeout
\* yields a result whose exit_code is s.
C5_ExitStatus ==
    \A c \in SeqCallers :
        (Returned(c) /\ ret[c].seen = "intime" /\ ret[c].n = 1) =>
            ret[c].exit_code = ret[c].st
\* --------------------------------------------------------- lifecycle claims
Killed(id) == id \in killedOk

Resolves(id) ==
    IF backend = "tmux" THEN session_exists(id) ELSE get_container(id) # "not_found"

\* C6: once kill_sandbox(id) has returned true, the id never resolves again:
\* from then on is_sandbox_running(id) returns false and get_sandbox_info(id)
\* and run_command(id, ..) fail with not-found, on both backends.
C6_KilledStaysGone ==
    /\ \A id \in Ids : Killed(id) => ~Resolves(id)
    /\ \A c \in SeqCallers :
          (pc[c] = "idle" /\ ret[c].sid \in Ids /\ Killed(ret[c].sid)) =>
              /\ ret[c].op = "is_running" => (ret[c].res = "ok" /\ ~ret[c].val)
              /\ ret[c].op \in {"info", "run"} => ret[c].res = "not_found"

\* run_command has been answered not-found on a sandbox that a kill_sandbox
\* returning true had removed.
C6_Witness ==
    \E c \in SeqCallers :
        /\ pc[c] = "idle" /\ ret[c].op = "run" /\ ret[c].res = "not_found"
        /\ ret[c].sid \in Ids /\ Killed(ret[c].sid)

\* C7: for a sandbox id that create_sandbox returned, the first
\* kill_sandbox(id) returns true and the second returns false.
C7_SecondKillFalse ==
    \A id \in Ids :
        (id \notin faults /\ Len(killLog[id]) >= 2) =>
            (killLog[id][1] /\ ~killLog[id][2])

\* C8: connect_sandbox, get_sandbox_info, run_command and
\* run_command_background on an id with no session or container behind it
\* fail with not-found, without typing keys or issuing an exec.
C8_NotFoundFirst ==
    \A c \in SeqCallers :
        (/\ pc[c] = "idle"
         /\ ret[c].op \in {"connect", "info", "run", "run_bg"}
         /\ ~ret[c].existed) =>
            (ret[c].res = "not_found" /\ ~ret[c].io)

\* ---------------------------------------------------- file operation claims
FileOps == {"write_file", "write_file_bytes", "read_file", "read_file_bytes",
            "rename_file"} \cup QueryOps \cup ChangeOps

\* C9: a file operation called with a sandbox id unknown to the backend
\* fails with not-found and leaves the host file system as it was.
C9_UnknownIdFails ==
    \A c \in SeqCallers :
        (ret[c].op \in FileOps /\ ~ret[c].existed) =>
            (ret[c].res = "not_found" /\ ~ret[c].wrote)

\* C10: for each path form and each content, write_file followed by
\* read_file of the same path, and write_file_bytes followed by
\* read_file_bytes, with no other change to the files in between, returns
\* exactly what was written.
C10_RoundTrip ==
    \A c \in SeqCallers :
        (/\ ret[c].op \in {"read_file", "read_file_bytes"}
         /\ ret[c].existed
         /\ lastWrite.sid = ret[c].sid /\ lastWrite.path = ret[c].path
         /\ lastWrite.text = (ret[c].op = "read_file")) =>
            (ret[c].res = "ok" /\ ret[c].data = lastWrite.data)

\* C11: on the terminal backend every file operation acts on a host path
\* below the workspace directory of the sandbox it was called for, whatever
\* the form of the path, so nothing outside the workspaces is ever written.
C11_InsideWorkspace ==
    backend = "tmux" =>
        /\ \A e \in fs : e.loc.root = "ws"
        /\ \A c \in SeqCallers :
              ret[c].op \in FileOps =>
                  /\ get_full_path(ret[c].sid, ret[c].path).root = "ws"
                  /\ get_full_path(ret[c].sid, ret[c].path).id = ret[c].sid

\* ------------------------------------------------------------ listing claims
Listed(name) == \E i \in 1 .. Len(lastList.names) : lastList.names[i] = name

\* C12: list_sandboxes(limit=N), N >= 0, returns at most N entries on both
\* backends.
C12_AtMostLimit == lastList.op = "list" => Len(lastList.names) <= lastList.limit

\* C13: list_sandboxes returns only sandboxes that create_sandbox of this
\* system made: a session or container of other origin is never in the
\* result, whatever its name.
C13_OnlyOwn ==
    \A i \in 1 .. Len(lastList.names) :
        /\ lastList.names[i] \notin foreign
        /\ lastList.names[i][1] = "sbx" /\ lastList.names[i][2] \in 1 .. nextId

\* C20: after create_sandbox has failed with a creation failure, no session
\* or container with the allocated id exists, no entry for it is in
\* _sessions or _active_containers, no side file for it is on disk, and no
\* later list_sandboxes reports it.
C20_FailedCreateLeavesNothing ==
    \A id \in faults :
        /\ id \notin sessions /\ id \notin sessTable /\ id \notin sideFiles
        /\ containers[id] = "none" /\ id \notin activeContainers
        /\ lastList.upto >= id => ~Listed(SandboxName(id))

\* ---------------------------------------------------- container timeout claim
\* C14: run_command on the container backend returns no later than the
\* supplied timeout T, even when the command never ends: no call is still
\* waiting after T, and none has returned after T.
C14_CappedAtTimeout ==
    \A c \in SeqCallers :
        /\ pc[c] = "exec" => cur[c].elapsed <= cur[c].T
        /\ (pc[c] = "idle" /\ ret[c].op = "run" /\ ret[c].res = "ok") =>
               ret[c].elapsed <= ret[c].T

\* --------------------------------------------------- two-sandbox claims
\* C15: of run_command calls running at the same time on two different
\* sandboxes, each one whose command has ended within the timeout returns
\* the output and the exit status of its own command.
C15_OwnCommandOnly ==
    \A c \in Callers :
        (Returned(c) /\ ret[c].seen = "intime") =>
            /\ ret[c].exit_code = ret[c].st
            /\ ret[c].stdout = <<Tok("out", ret[c].n)>>

\* What belongs to sandbox b: its session with the keys typed into it and
\* the command it runs, its entry in _sessions, its side file, its capture
\* file, its workspace directory and the files below that.
SandboxState(b) ==
    <<b \in sessions, pty[b], running[b], b \in sessTable, b \in sideFiles,
      capFile[output_file(b)], b \in workspaces,
      {e \in fs : e.loc.root = "ws" /\ e.loc.id = b}>>

\* The step is one of a run_command call on sandbox b or of b's shell.
Acts(b) ==
    \/ \E c \in Callers :
          /\ cur[c].sid = b \/ cur'[c].sid = b
          /\ <<pc[c], cur[c]>>' # <<pc[c], cur[c]>>
    \/ pty'[b] # pty[b]
    \/ running'[b] # running[b]

\* The result a call has when nothing else goes on in its sandbox: that of a
\* timeout if its marker was not met, else what the capture file of its own
\* command holds before the first marker.
OwnResult(r) ==
    IF r.seen = "no" THEN r.exit_code = TimeoutCode /\ r.stdout = <<>>
    ELSE IF echoStderr THEN r.exit_code = 0 /\ r.stdout = <<Tok("echo", r.n)>>
    ELSE r.exit_code = r.st /\ r.stdout = <<Tok("out", r.n)>>

TimedOutBefore(a, b) ==
    /\ Returned(a) /\ ret[a].exit_code = TimeoutCode
    /\ Returned(b) /\ ret[b].sid # ret[a].sid /\ ret[b].n > ret[a].n

\* C16: no step of a run_command call on a sandbox A, a call that times out
\* included, changes anything that belongs to another sandbox B, and a
\* run_command on B begun after a call on A that timed out returns the
\* result of its own invocation.
C16_TimeoutIsLocal ==
    /\ [](\A a, b \in Callers : TimedOutBefore(a, b) => OwnResult(ret[b]))
    /\ [][\A b \in Ids : ~Acts(b) => SandboxState(b)' = SandboxState(b)]_vars

\* A call on one sandbox has timed out and a call begun later on the other
\* sandbox has met its marker and returned.
C16_Witness ==
    \E a, b \in Callers : TimedOutBefore(a, b) /\ ret[b].seen = "intime"

\* ------------------------------------------------------ capture file claim
\* C17: run_command removes the capture file before it returns, on success
\* and on timeout, so whenever no run_command is in progress on a sandbox
\* there is no capture file for that sandbox.
C17_NoCaptureFileLeft ==
    \A id \in Ids :
        (\A c \in SeqCallers : ~(InFlight(c) /\ cur[c].sid = id)) =>
            ~capFile[output_file(id)].exists

\* ------------------------------------------------------------ factory claims
HadCached == lastMade.had # NoInstance

\* C18: the factory caches at most one instance per backend name, and
\* create_backend(name, config, cache=true) returns the instance cached for
\* that name when there is one, whatever the config, and leaves the cache as
\* it is; it constructs, validates and caches a new instance only when there
\* is none.
C18_OnePerName ==
    /\ [](/\ \A p, q \in instances : p[1] = q[1] => p = q
          /\ (lastMade.op = "create_backend" /\ lastMade.cache /\ HadCached) =>
                 /\ lastMade.res = "ok" /\ ~lastMade.built
                 /\ lastMade.inst = lastMade.had.n
          /\ (lastMade.op = "create_backend" /\ lastMade.cache /\ ~HadCached
                /\ lastMade.res = "ok") =>
                 /\ lastMade.built
                 /\ \E p \in instances :
                       /\ p[1] = Lower(lastMade.name) /\ p[2].n = lastMade.inst
                       /\ p[2].cfg = lastMade.cfg)
    /\ [][(/\ lastMade'.op = "create_backend" /\ lastMade'.cache
           /\ \E p \in instances : p[1] = Lower(lastMade'.name)) =>
              (instances' = instances /\ made' = made)]_vars

\* create_backend has returned the cached instance to a call that passed a
\* config other than the one the instance was made from.
C18_Witness ==
    /\ lastMade.op = "create_backend" /\ lastMade.cache /\ lastMade.res = "ok"
    /\ ~lastMade.built /\ HadCached
    /\ lastMade.inst = lastMade.had.n /\ lastMade.had.cfg # lastMade.cfg

\* What exists on the host and in the runtime, and what the instance in use
\* holds.
LiveState ==
    <<nextId, workspaces, sessions, sideFiles, pty, running, capFile, teeLive,
      containers, fs, sessTable, activeContainers, held, shelved, made>>

\* The sandbox id answers through the instance in use.
Reaches(r) == r.res = "ok" /\ r.val

\* C19: clear_cache empties the factory's cache and changes nothing else: no
\* sandbox, session, container, workspace or side file is touched, and a
\* sandbox that is live answers a connect_sandbox made through an instance
\* constructed after the clear.
C19_ClearTouchesNothing ==
    /\ [][(lastMade'.op = "clear_cache" /\ lastMade' # lastMade) =>
            (instances' = {} /\ LiveState' = LiveState)]_vars
    /\ [](\A c \in SeqCallers :
            (/\ lastMade.op = "create_backend" /\ lastMade.built
             /\ lastMade.empty /\ Lower(lastMade.name) = backend
             /\ ret[c].op = "connect" /\ ret[c].existed) =>
                Reaches(ret[c]))

\* After a clear_cache, a sandbox made through the earlier instance has
\* answered connect_sandbox through a newly constructed one.
C19_Witness ==
    \E c \in SeqCallers :
        /\ lastMade.op = "create_backend" /\ lastMade.built /\ lastMade.empty
        /\ Lower(lastMade.name) = backend /\ held = lastMade.inst
        /\ ret[c].op = "connect" /\ ret[c].res = "ok"
        /\ \E i \in 1 .. MaxInstances : i # held /\ ret[c].sid \in shelved[i]


\* ------------------------------------------------------- sandbox id claims
\* The session or container named after the id is on the host.
Live(id) == IF backend = "tmux" THEN session_exists(id) ELSE containers[id] # "none"

CreatedBy(c) == ret[c].op = "create" /\ ret[c].res = "ok"

C22_BackendNamespaced ==
    \A i \in Issued, d \in Ids :
        /\ backend = "tmux" => TmuxSandboxId(i) # DockerSandboxId(d)
        /\ backend = "orbstack" => DockerSandboxId(i) # TmuxSandboxId(d)


\* ------------------------------------------------- kill and pause claims
\* C23: kill_sandbox never raises on either backend: whatever the id and
\* whichever underlying step fails, it returns a boolean, and the boolean is
\* true only when a sandbox was there and has been killed.
C23_KillReportsFailure ==
    \A c \in SeqCallers :
        ret[c].op = "kill" =>
            /\ ret[c].res = "ok"
            /\ ret[c].val => (ret[c].existed /\ ~Live(ret[c].sid))

\* C24: on the terminal backend pause_sandbox and resume_sandbox return
\* false for every id, never raise, and change no session, side file,
\* workspace, file or entry of the session table.
C24_PauseResumeNoOp ==
    /\ [](\A c \in SeqCallers :
             (backend = "tmux" /\ ret[c].op \in {"pause", "resume"}) =>
                 (ret[c].res = "ok" /\ ~ret[c].val))
    /\ [][\A c \in SeqCallers :
             (backend = "tmux" /\ ret'[c] # ret[c] /\ ret'[c].op \in {"pause", "resume"}) =>
                 UNCHANGED <<sessions, sessTable, sideFiles, workspaces, fs, pty,
                             running, capFile, teeLive>>]_vars

\* pause_sandbox or resume_sandbox has been called on a live session, which
\* is still there.
C24_Witness ==
    \E c \in SeqCallers :
        /\ backend = "tmux" /\ ret[c].op \in {"pause", "resume"}
        /\ ret[c].existed /\ session_exists(ret[c].sid) /\ ret[c].sid \in sessTable


\* ------------------------------------------------ completion detection
\* The command line of invocation n is still waiting in the pane of sandbox
\* id, or the shell is still executing it.
Unfinished(id, n) ==
    \/ running[id].n = n
    \/ \E i \in 1 .. Len(pty[id]) : pty[id][i].kind = "cmd" /\ pty[id][i].n = n

\* C25: whenever run_command returns an exit code other than -1, its command
\* has finished and the trailing echo of the marker has run, and the exit
\* code is the status that echo printed, whether or not the terminal echoes
\* the typed command line.
C25_CompletionSound ==
    \A c \in SeqCallers :
        (Returned(c) /\ ret[c].exit_code # TimeoutCode) =>
            /\ ~Unfinished(ret[c].sid, ret[c].n)
            /\ ret[c].exit_code = ret[c].st


\* ------------------------------------------------------ side file claims
Constructed == lastMade' # lastMade /\ lastMade'.op = "create_backend" /\ lastMade'.built

\* C26: a TmuxBackend under construction fills _sessions with exactly the
\* ids that have a side file and a live session at that moment; a side file
\* it passed over because its session was gone never gets into the session
\* table afterwards, nor into what get_sandbox_info or list_sandboxes return.
C26_StaleNeverResurrected ==
    /\ [](\A id \in dropped :
             /\ id \notin sessTable
             /\ \A c \in SeqCallers :
                   ~(ret[c].op = "info" /\ ret[c].sid = id /\ ret[c].meta = "side_file")
             /\ SandboxName(id) \notin lastList.fromFile)
    /\ [][Constructed => sessTable' = {i \in sideFiles : session_exists(i)}]_vars


\* ------------------------------------------------ container status claims
\* get_sandbox_info has reported the container of sandbox id as stopped or
\* as in error, and that is the state it is in.
ReportedDown(id) ==
    /\ containers[id] # "none"
    /\ MapStatus(containers[id]) \in {"stopped", "error"}
    /\ \E c \in SeqCallers :
          /\ ret[c].op = "info" /\ ret[c].sid = id
          /\ ret[c].res = MapStatus(containers[id])

\* C27: on the container backend stopped and error are terminal: once a
\* sandbox has been reported as stopped or in error, no operation of the
\* backend brings its container back to running.
C27_StoppedIsTerminal ==
    [][\A id \in Ids : ReportedDown(id) => containers'[id] # "running"]_vars

\* C28: whenever connect_sandbox returns true on the container backend, a
\* container of that name was there, it is running now, stopped before or
\* not, and its handle is in _active_containers; for an id without a
\* container connect_sandbox fails with not-found and records nothing, and
\* it fails with not-found for no other id.
C28_ConnectStarts ==
    [][\A c \in SeqCallers :
          (backend = "orbstack" /\ ret'[c] # ret[c] /\ ret'[c].op = "connect") =>
              LET id == ret'[c].sid IN
              /\ ret'[c].val =>
                    /\ containers[id] # "none"
                    /\ containers'[id] = "running"
                    /\ id \in activeContainers'
              /\ containers[id] = "none" =>
                    /\ ret'[c].res = "not_found" /\ ~ret'[c].val
                    /\ UNCHANGED <<containers, activeContainers>>
              /\ ret'[c].res = "not_found" => containers[id] = "none"]_vars

\* A connect_sandbox that found the container not running has started it
\* and returned true.
C28_Witness ==
    \E c \in SeqCallers :
        /\ ret[c].op = "connect" /\ ret[c].val /\ ret[c].meta = "started"
        /\ containers[ret[c].sid] = "running"
        /\ ret[c].sid \in activeContainers

FourStatuses == {"running", "paused", "stopped", "error"}

\* What get_sandbox_info has reported lies in S.
ReportsWithin(S) ==
    \A c \in SeqCallers : (ret[c].op = "info" /\ ret[c].val) => ret[c].res \in S

\* C29 as stated: the status mapping takes each of the seven native states
\* to one of running, paused, stopped, error, and every other string to
\* error, so get_sandbox_info reports one of these four.
C29_AsStated ==
    /\ \A s \in NativeStates : MapStatus(s) \in FourStatuses
    /\ \A s \in UnexpectedStates : MapStatus(s) = "error"
    /\ ReportsWithin(FourStatuses)

\* C29: the status mapping is a total function from state strings onto the
\* five statuses creating, running, paused, stopped, error: running and
\* paused map to themselves, exited and removing to stopped, created and
\* restarting to creating, dead to error, and every other string to error;
\* get_sandbox_info reports one of these five.
C29_MapStatus ==
    /\ \A s \in NativeStates \cup UnexpectedStates : MapStatus(s) \in SandboxStatuses
    /\ {MapStatus(s) : s \in NativeStates} = SandboxStatuses
    /\ \A s \in {"running", "paused"} : MapStatus(s) = s
    /\ \A s \in {"exited", "removing"} : MapStatus(s) = "stopped"
    /\ \A s \in {"created", "restarting"} : MapStatus(s) = "creating"
    /\ \A s \in {"dead"} \cup UnexpectedStates : MapStatus(s) = "error"
    /\ ReportsWithin(SandboxStatuses)

\* get_sandbox_info has reported a container that was created but not
\* started as creating.
C29_Witness ==
    \E c \in SeqCallers :
        /\ ret[c].op = "info" /\ ret[c].res = "creating"
        /\ containers[ret[c].sid] = "created"


\* ------------------------------------------------------ kill frame claims
\* The files and directories below the workspace directory of sandbox id.
WorkspaceFiles(id) == {e \in fs : e.loc.root = "ws" /\ e.loc.id = id}

\* C30: on the terminal backend, once kill_sandbox(id) has returned true the
\* side file of id is gone and id is not in _sessions; with cleanup_workspace
\* configured the workspace directory of id and what was below it are gone,
\* without it the workspace directories and every file are as they were.
C30_KillFrame ==
    [][\A c \in SeqCallers :
          (backend = "tmux" /\ ret'[c] # ret[c] /\ ret'[c].op = "kill" /\ ret'[c].val) =>
              LET id == ret'[c].sid IN
              /\ id \notin sideFiles' /\ id \notin sessTable'
              /\ cleanup_workspace =>
                    (id \notin workspaces' /\ \A e \in fs' : ~(e.loc.root = "ws" /\ e.loc.id = id))
              /\ ~cleanup_workspace => UNCHANGED <<workspaces, fs>>]_vars

\* kill_sandbox has returned true for a sandbox with a file in its workspace,
\* cleanup_workspace not configured: the file and the workspace are there.
C30_Witness ==
    \E c \in SeqCallers :
        /\ backend = "tmux" /\ ~cleanup_workspace
        /\ ret[c].op = "kill" /\ ret[c].val /\ ret[c].existed
        /\ ret[c].sid \in workspaces /\ WorkspaceFiles(ret[c].sid) # {}
        /\ ret[c].sid \notin sideFiles

\* The same with cleanup_workspace configured: workspace and files are gone,
\* a file written outside the workspace is not.
C30_WitnessCleanup ==
    \E c \in SeqCallers :
        /\ backend = "tmux" /\ cleanup_workspace
        /\ ret[c].op = "kill" /\ ret[c].val /\ ret[c].existed
        /\ ret[c].sid \notin workspaces /\ nFileOps > 0


\* ------------------------------------------------ metadata given at creation
\* A client that creates sandboxes with metadata, gets new backend
\* instances from the factory or constructs them, and asks any of them for
\* the sandboxes' information.
NextMeta ==
    \/ \E c \in SeqCallers, m \in Metadatas : TmuxCreateWith(c, TRUE, MaxSandboxes, m)
    \/ \E c \in SeqCallers, m \in Metadatas : DockerCreateWith(c, TRUE, MaxSandboxes, m)
    \/ \E c \in SeqCallers, name \in Backends, cache \in BOOLEAN :
          CreateBackend(c, name, 1, cache, TRUE)
    \/ \E c \in SeqCallers, id \in Issued : TmuxConnect(c, id)
    \/ \E c \in SeqCallers, id \in Issued : TmuxInfo(c, id)
    \/ \E c \in SeqCallers, id \in Issued : DockerInfo(c, id)
    \/ \E c \in SeqCallers, limit \in Limits : TmuxList(c, limit)
    \/ \E c \in SeqCallers, limit \in Limits, unlimited \in BOOLEAN :
          DockerList(c, limit, unlimited)

InitMeta == Init /\ echoStderr = FALSE /\ cleanup_workspace = FALSE /\ foreign = {}

SpecMeta == InitMeta /\ [][NextMeta]_vars

\* C31: the metadata a get_sandbox_info reports for a sandbox, and the
\* metadata list_sandboxes reports for each sandbox in its result, equal the
\* metadata map its create_sandbox call was given, whichever instance of the
\* backend type answers, the creating one or one constructed afterwards.
C31_MetadataRecovered ==
    /\ \A c \in Callers :
          ret[c].op = "info" /\ ret[c].val /\ ret[c].sid \in Issued
             => ret[c].metadata = given[ret[c].sid]
    /\ \A e \in lastList.metas :
          e[1][2] \in Issued => e[2] = given[e[1][2]]

\* A get_sandbox_info answered by an instance that does not hold the
\* sandbox in its table, and a listing, of a sandbox created with two
\* metadata pairs.
C31_Witness ==
    /\ \E c \in Callers :
          /\ ret[c].op = "info" /\ ret[c].val
          /\ Cardinality(ret[c].metadata) = 2
          /\ IF backend = "tmux" THEN ret[c].meta = "side_file"
             ELSE ret[c].sid \notin activeContainers
    /\ \E e \in lastList.metas : Cardinality(e[2]) = 2

\* ----------------------------------------------- operations on missing paths
MissingPathOps == {"read_file", "read_file_bytes", "get_file_info", "remove_file",
                   "rename_file"}

\* Nothing is at the path in the sandbox, however the path is resolved.
Nowhere(id, p) ==
    IF backend = "tmux" THEN ~Exists(get_full_path(id, p))
    ELSE ~Exists(ResolveExec(id, p)) /\ ~Exists(ResolveArchive(id, p))

\* C32: read_file, read_file_bytes, get_file_info, remove_file and
\* rename_file (by its source path) called on a live sandbox with a path at
\* which nothing exists fail with a file-operation failure and leave the
\* file system as it was; none of them reports success.
C32_MissingPathFails ==
    [][\A c \in Callers :
          /\ nFileOps' # nFileOps /\ ret'[c] # ret[c]
          /\ ret'[c].op \in MissingPathOps
          /\ Live(ret'[c].sid) /\ ret'[c].sid \in Issued
          /\ Nowhere(ret'[c].sid, ret'[c].path)
          => ret'[c].res = "file_error" /\ fs' = fs]_vars

\* ------------------------------------------------- a run_command timing out
\* C34: a run_command that gives up at its deadline and returns -1 types
\* nothing more into the pane and ends nothing: over the steps in which it
\* leaves the loop and returns, the session, the keys waiting in the pane
\* and the command running in it stay as they are, so the session exists
\* after the return and the command goes on until it ends by itself.
C34_TimeoutLeavesCommand ==
    [][\A c \in Callers :
          /\ pc[c] \in {"poll", "cleanup"} /\ pc'[c] \in {"cleanup", "idle"}
          /\ pc'[c] # pc[c]
          /\ cur[c].exit_code = TimeoutCode
          /\ pc'[c] = "cleanup" => cur'[c].exit_code = TimeoutCode
          => /\ sessions' = sessions /\ pty' = pty /\ running' = running
             /\ cur[c].sid \in sessions']_vars

\* A call has returned -1 and its command is still running in the session.
C34_Witness ==
    \E c \in Callers :
       /\ ret[c].op = "run" /\ ret[c].res = "ok" /\ ret[c].exit_code = TimeoutCode
       /\ session_exists(ret[c].sid)
       /\ running[ret[c].sid] # NoCmd /\ running[ret[c].sid].n = ret[c].n

\* ------------------------------------------------------ cached containers
\* C35: _active_containers holds only ids whose container exists, and an
\* operation of the container backend on an id whose container is gone
\* reports not-found (is_sandbox_running: False) rather than failing on a
\* handle it had cached.
C35_NoStaleHandle ==
    /\ backend = "orbstack" => \A id \in activeContainers : ~Gone(id)
    /\ \A c \in Callers :
          /\ backend = "orbstack" /\ pc[c] = "idle"
          /\ ret[c].op \in {"connect", "info", "is_running", "run", "run_bg"}
          /\ ~ret[c].existed
          => IF ret[c].op = "is_running" THEN ret[c].res = "ok" /\ ~ret[c].val
             ELSE ret[c].res = "not_found"

\* ------------------------------- a background command during a foreground one
\* One thread runs a command in the foreground on a sandbox; while that
\* call is in flight another thread starts background commands on the same
\* sandbox.
NextBg ==
    \/ \E st \in Statuses, T \in Timeouts :
          nCalls < MaxLifeCalls /\ TmuxRunStart(1, 1, st, T)
    \/ TmuxRun(1)
    \/ InFlight(1) /\ TmuxRunBackground(2, 1)
    \/ Shell

InitBg == Started(1) /\ backend = "tmux" /\ cleanup_workspace = FALSE /\ foreign = {}

SpecBg == InitBg /\ [][NextBg]_vars

\* C37: a run_command_background issued on a sandbox while a run_command on
\* the same sandbox is in flight leaves the result of the run_command what
\* it is without the background call, under every interleaving: output and
\* exit status of its own command, or -1 with no output on a timeout.
C37_ForegroundUnaltered ==
    \A c \in Callers : Returned(c) /\ nBg > 0 => OwnResult(ret[c])

\* ------------------------------------------------ the timeout of run_command
\* The timeouts a caller may hand to run_command: none or 0 (written 0), a
\* positive one, a negative one.
SuppliedTimeouts == {-1, 0, 1}

\* One thread running commands on a sandbox with any of these timeouts.
NextTimeout ==
    \/ \E st \in Statuses, T \in SuppliedTimeouts :
          nCalls < MaxLifeCalls /\ TmuxRunStart(1, 1, st, T)
    \/ TmuxRun(1)
    \/ Shell

InitTimeout ==
    Started(1) /\ backend = "tmux" /\ cleanup_workspace = FALSE /\ foreign = {}
               /\ echoStderr = FALSE

SpecTimeout == InitTimeout /\ [][NextTimeout]_vars

\* C40 as stated: run_command never polls against a timeout of 0 (None and
\* 0 are replaced by the default), and a call that returns -1 has looked
\* into the capture file at least once, whatever timeout it was given.
C40_AsStated ==
    \A c \in Callers :
       /\ InFlight(c) => cur[c].T # 0
       /\ Returned(c) /\ ret[c].exit_code = TimeoutCode => ret[c].polls >= 1

\* C40: run_command never polls against a timeout of 0 (None and 0 are
\* replaced by the default of 60 seconds), and a call with a timeout that is
\* not negative which returns -1 has looked into the capture file at least
\* once and has waited out its timeout.
C40_PolledBeforeTimeout ==
    \A c \in Callers :
       /\ InFlight(c) => cur[c].T # 0
       /\ Returned(c) /\ ret[c].exit_code = TimeoutCode /\ ret[c].T >= 0
          => ret[c].polls >= 1 /\ ret[c].elapsed >= ret[c].T

\* A call made with timeout 0 has polled for the whole default timeout and
\* returned -1.
C40_Witness ==
    \E c \in Callers :
       /\ Returned(c) /\ ret[c].exit_code = TimeoutCode
       /\ ret[c].T = DefaultTimeout /\ ret[c].polls * PollTicks = DefaultTimeout

\* -------------------------------------------- the workspace of a sandbox
\* A client that takes TmuxBackend instances with one workspace_dir or
\* another from the factory, all on the same capture_dir, creates a sandbox
\* and works on it through whichever instance it holds.
NextWs ==
    \/ \E c \in SeqCallers, cfg \in Configs, cache \in BOOLEAN :
          CreateBackend(c, "tmux", cfg, cache, TRUE)
    \/ \E c \in SeqCallers : TmuxCreate(c, TRUE)
    \/ \E c \in SeqCallers, id \in Issued : TmuxConnect(c, id)
    \/ \E c \in SeqCallers, id \in Issued :
          nCalls < MaxLifeCalls /\ TmuxRunStart(c, id, 0, 1)
    \/ \E c \in SeqCallers : TmuxRun(c)
    \/ Shell
    \/ \E c \in SeqCallers, id \in Issued : TmuxRunBackground(c, id)
    \/ \E c \in SeqCallers, id \in Issued : TmuxWriteFile(c, id, PRel, <<"x", "LF">>, TRUE)
    \/ \E c \in SeqCallers, id \in Issued : TmuxReadFile(c, id, PRel, TRUE)

InitWs ==
    Init /\ backend = "tmux" /\ cleanup_workspace = FALSE /\ foreign = {}
         /\ echoStderr = FALSE

SpecWs == InitWs /\ [][NextWs]_vars

\* The workspace directory written into the side file of sandbox id.
Recorded(id) == ParseSessionInfo(sideInfo[id]).workspace

\* C36: a run_command, run_command_background or file operation of the
\* terminal backend on a sandbox works in the workspace directory recorded
\* in the sandbox's side file, whichever instance performs it and whether
\* connect_sandbox was called on that instance or not.
C36_SameWorkspace ==
    \A c \in Callers :
       /\ ret[c].op \in {"run", "run_bg", "write_file", "read_file"}
       /\ ret[c].res # "not_found"
       /\ ret[c].sid \in Issued /\ ret[c].sid \in sideFiles
       => ret[c].ws = Recorded(ret[c].sid)

\* ------------------------------------------- the registry and get_backend
\* A process that has constructed its first backend itself and then uses
\* the factory: nothing is registered and nothing is cached at the start.
NextRegistry ==
    \/ \E c \in SeqCallers : RegisterBackend(c, "custom", "CustomBackend")
    \/ \E c \in SeqCallers : ListBackends(c)
    \/ \E c \in SeqCallers, name \in BackendNames \cup {"custom"}, cache \in BOOLEAN,
          valid \in BOOLEAN : CreateBackend(c, name, 1, cache, valid)
    \/ \E c \in SeqCallers : ClearCache(c)
    \/ \E c \in SeqCallers, name \in {""} \cup Backends, valid \in BOOLEAN :
          GetBackend(c, name, 1, valid)

InitRegistry ==
    Booted(0, {}, {}) /\ echoStderr = FALSE /\ cleanup_workspace = FALSE /\ foreign = {}

SpecRegistry == InitRegistry /\ [][NextRegistry]_vars

\* C38: whatever register_backend, create_backend, list_backends and
\* clear_cache calls came before, a create_backend or get_backend for
\* 'orbstack' or 'tmux' does not fail with InvalidBackendError.
C38_DefaultsResolvable ==
    lastMade.op \in {"create_backend", "get_backend"} /\ Lower(lastMade.name) \in Backends
       => lastMade.res # "invalid_backend"

\* C39: the instance a get_backend() without backend type returns is held
\* in the factory's instance cache at that moment; after a clear_cache() it
\* is not an instance the cache has dropped.
C39_CurrentIsCached ==
    lastMade.op = "get_backend" /\ lastMade.name = "" /\ lastMade.res = "ok"
       => \E p \in instances : p[2].n = lastMade.inst


\* ------------------------------------------------ create_backend that fails
\* A create_backend call that raised.
FailedCreate(m) ==
    m.op = "create_backend" /\ m.res \in {"invalid_backend", "creation_error"}

\* C33: a create_backend call with a name that has no registered class raises
\* InvalidBackendError; a create_backend call that raises, for an unknown
\* name or because the backend's validation failed, leaves the instance cache
\* as it was; the cache only ever holds instances whose construction went
\* through, and create_backend only ever returns such an instance.
C33_FailureLeavesCache ==
    /\ [](\A p \in instances : p[2].n \in 1 .. made)
    /\ [](lastMade.op = "create_backend" /\ lastMade.res = "ok"
            => lastMade.inst \in 1 .. made)
    /\ [][/\ FailedCreate(lastMade') => instances' = instances /\ made' = made
          /\ lastMade'.op = "create_backend"
               /\ ~HasClass(DefaultsIfEmpty(registry), Lower(lastMade'.name))
             => lastMade'.res = "invalid_backend"]_vars

\* A caching create_backend call has failed in the backend's validation while
\* the cache held an instance of another backend, and one with an unknown
\* name is possible too.
C33_Witness ==
    /\ lastMade.op = "create_backend" /\ lastMade.res = "creation_error"
    /\ lastMade.cache /\ ~lastMade.empty
    /\ lastMade.had = NoInstance
    /\ instances # {}

=============================================================================
